---- MODULE Spec2Model ----
(***************************************************************************)
(* Axom Observer: the signal pipeline (proxy handlers -> bounded signal     *)
(* channel -> exporter / coordinator -> ingest endpoint) and the leaf       *)
(* certificate handling of the two HTTPS front ends.                        *)
(***************************************************************************)
EXTENDS Integers, Sequences, FiniteSets, TLC

(***************************************************************************)
(* Bounds of the model.                                                     *)
(***************************************************************************)
\* connections the proxies serve at the same time
NumHandlers == 1
\* signals built by the proxy handlers in one run
MaxBuilt == 2
\* signals sent on the channel by its other senders in one run
MaxSignals == 3
\* capacity of the signal channel (make(chan models.Signal, 100), scaled)
ChanCap == 1
\* SignalSender.batchSize (10 in main.go, default 50, scaled)
BatchSize == 2
\* concurrent TLS handshakes calling MITMProxy.getOrCreateCert
NumCallers == 2
\* CONNECT requests handled by HTTPSProxy in one run
MaxConnects == 3

\* readings of the system clock in one run
MaxClock == 2
\* signal ids generated in one run
MaxIds == 3

\* pieces of a request path given to determineOperation
MaxPathLen == 3

\* pieces of a prompt or response text given to the task detector
MaxTextLen == 3
\* signals given to TaskDetector.DetermineOutcome
MaxOutcomeSignals == 2

\* startups of the process per owner of a root CA
MaxStartups == 2

\* Longest SQL text given to the extractors, in words.
MaxSqlLen == 4

(***************************************************************************)
(* Program constants.                                                       *)
(***************************************************************************)
maxRetries == 5
baseDelay == 2

Handlers == 1..NumHandlers

\* Outcomes of one POST to the ingest endpoint: 0 is a transport error
\* (client.Do returned err), the others are HTTP status codes.
Statuses == {0, 200, 400, 429, 503}

REDACTED == "[REDACTED]"

\* The field list SignalSender.Start passes to Redact.
SensitiveFields == {"authorization", "api_key"}

EmptyMap == [k \in {} |-> ""]

NoSignal == [seq |-> 0, protocol |-> "", metadata |-> EmptyMap,
             outcome_data |-> EmptyMap]

\* Strings that the code takes apart (hosts, domains, paths, patterns) are
\* sequences of tokens: "api.openai.com:443" is <<"api", ".openai", ".com",
\* ":443">>.  The functions of package strings work on them token by token.
HasPrefix(str, p) == Len(p) <= Len(str) /\ SubSeq(str, 1, Len(p)) = p

HasSuffix(str, p) ==
    Len(p) <= Len(str) /\ SubSeq(str, Len(str) - Len(p) + 1, Len(str)) = p

Contains(str, p) ==
    \E i \in 0..(Len(str) - Len(p)) : SubSeq(str, i + 1, i + Len(p)) = p

IsStar(t) == t = "*"

IsNotStar(t) == t # "*"

\* strings.ReplaceAll(domain, "*", "")
ReplaceAllStar(d) == SelectSeq(d, IsNotStar)

\* var knownAIProviders (the entries the requests of the model can meet)
knownAIProviders ==
    << [Name |-> "OpenAI",
        Domains |-> << <<"api", ".openai", ".com">> >>,
        APIPatterns |-> << <<"/v1", "/chat", "/completions">>,
                           <<"/v1", "/embeddings">> >>],
       [Name |-> "Anthropic",
        Domains |-> << <<"api", ".anthropic", ".com">> >>,
        APIPatterns |-> << <<"/v1", "/messages">> >>],
       [Name |-> "Azure OpenAI",
        Domains |-> << <<"*", ".openai", ".azure", ".com">> >>,
        APIPatterns |-> << <<"/openai", "/deployments">> >>] >>

\* A nil *AIProvider.
NoProvider == ""

ProviderIndexes == 1..Len(knownAIProviders)

\* The name of the first provider of the registry among those that hit
\* (the loops return at the first match), nil when none does.
FirstProvider(hits) ==
    IF hits = {} THEN NoProvider
    ELSE knownAIProviders[CHOOSE i \in hits : \A j \in hits : i <= j].Name

\* strings.Contains(path, pattern) for one of the provider's patterns
PathContains(p, path) ==
    \E i \in 1..Len(p.APIPatterns) : Contains(path, p.APIPatterns[i])

\* strings.HasPrefix(path, apiPattern) for one of the provider's patterns
PathHasPrefix(p, path) ==
    \E i \in 1..Len(p.APIPatterns) : HasPrefix(path, p.APIPatterns[i])

\* strings.Contains(host, strings.ReplaceAll(domain, "*", "")) for one of
\* the provider's domains
DomainContained(p, host) ==
    \E i \in 1..Len(p.Domains) : Contains(host, ReplaceAllStar(p.Domains[i]))

\* The host equals one of the provider's domains or, for a wildcard domain,
\* ends with what follows the star.
DomainMatches(p, host) ==
    \E i \in 1..Len(p.Domains) :
        \/ IsStar(p.Domains[i][1]) /\ HasSuffix(host, ReplaceAllStar(p.Domains[i]))
        \/ IsNotStar(p.Domains[i][1]) /\ host = p.Domains[i]

\* HTTPProxy.detectAIProvider: substring matches; a request addressed to the
\* observer itself (localhost:8888 / localhost:8443) is matched on the path
\* alone.
DetectHTTP(host, path) ==
    LET direct == Contains(host, <<"localhost">>)
                  /\ (Contains(host, <<":8888">>) \/ Contains(host, <<":8443">>))
        byPath == IF direct
                  THEN FirstProvider({i \in ProviderIndexes :
                                        PathContains(knownAIProviders[i], path)})
                  ELSE NoProvider
    IN  IF byPath # NoProvider THEN byPath
        ELSE FirstProvider({i \in ProviderIndexes :
                              /\ DomainContained(knownAIProviders[i], host)
                              /\ PathContains(knownAIProviders[i], path)})

\* HTTPSProxy.detectAIProvider: the host must equal the domain (or end with
\* it, for a wildcard domain) and the path must start with a pattern.
DetectTLS(host, path) ==
    FirstProvider({i \in ProviderIndexes :
                     /\ DomainMatches(knownAIProviders[i], host)
                     /\ PathHasPrefix(knownAIProviders[i], path)})

\* ProductionProxy.detectAIProvider, and the provider it goes on with when
\* none is detected: &AIProvider{Name: "Unknown", ...}
DetectProd(host, path) ==
    LET found == FirstProvider({i \in ProviderIndexes :
                                  /\ DomainContained(knownAIProviders[i], host)
                                  /\ PathContains(knownAIProviders[i], path)})
    IN  IF found = NoProvider THEN "Unknown" ELSE found

Detect(k, host, path) ==
    CASE k = "http" -> DetectHTTP(host, path)
      [] k = "tls" -> DetectTLS(host, path)
      [] OTHER -> DetectProd(host, path)

\* Protocol of the signal: HTTPProxy.createSignal sets "http",
\* HTTPSProxy.createSignal and ProductionProxy.createSignal set "https".
ProtocolOf(k) == IF k = "http" THEN "http" ELSE "https"

\* m with the keys of over written on top of it (metadata[k] = v in a loop).
Overlay(m, over) ==
    [key \in DOMAIN m \cup DOMAIN over |->
        IF key \in DOMAIN over THEN over[key] ELSE m[key]]

\* The metadata of createSignal: the keys of the parsed request, then those of
\* the parsed response, then provider (provider.Name) and endpoint
\* (r.URL.Path), each assignment overwriting what was there.
MetadataBodyWins(request, response, provider, path) ==
    Overlay([key \in {"provider", "endpoint"} |->
                IF key = "provider" THEN provider ELSE path],
            Overlay(request, response))

Metadata(request, response, provider, path) ==
    Overlay(Overlay(request, response),
            [key \in {"provider", "endpoint"} |->
                IF key = "provider" THEN provider ELSE path])

\* determineOperation: substring checks on the path, the first hit returns.
\* A path is its sequence of pieces, so that "/embeddings" (<<"/embed",
\* "dings">>) contains "/embed" as it does for strings.Contains.
determineOperationTextFirst(path) ==
    IF Contains(path, <<"/completions">>) \/ Contains(path, <<"/generate">>)
    THEN "text_completion"
    ELSE IF \/ Contains(path, <<"/chat", "/completions">>)
            \/ Contains(path, <<"/messages">>)
    THEN "chat_completion"
    ELSE "ai_request"

determineOperation(path) ==
    IF \/ Contains(path, <<"/chat", "/completions">>)
       \/ Contains(path, <<"/messages">>)
    THEN "chat_completion"
    ELSE IF \/ Contains(path, <<"/completions">>)
            \/ Contains(path, <<"/generate">>)
    THEN "text_completion"
    ELSE IF \/ Contains(path, <<"/embed", "dings">>)
            \/ Contains(path, <<"/embed">>)
    THEN "embedding"
    ELSE IF Contains(path, <<"/images", "/generations">>)
    THEN "image_generation"
    ELSE IF Contains(path, <<"/audio", "/transcriptions">>)
    THEN "audio_transcription"
    ELSE IF Contains(path, <<"/audio", "/translations">>)
    THEN "audio_translation"
    ELSE IF Contains(path, <<"/moderations">>)
    THEN "moderation"
    ELSE "ai_request"

\* Destination.Port of the signal: all three createSignal write 443.
DestinationPort(k) == 443

\* createSignal: metadata as above; outcome_data is not set by the proxies.
createSignal(n, k, provider, path, request, response) ==
    [seq |-> n,
     protocol |-> ProtocolOf(k),
     metadata |-> Metadata(request, response, provider, path),
     outcome_data |-> EmptyMap,
     destination |-> [port |-> DestinationPort(k)],
     operation |-> determineOperation(path)]

\* Signal values put on the channel by its other senders (the channel carries
\* any models.Signal; TestRedact builds the first shape).
SubmittedShapes ==
    { [metadata |-> [k \in {"authorization", "api_key", "other"} |->
                        IF k = "other" THEN "visible" ELSE "secret"],
       outcome_data |-> EmptyMap],
      [metadata |-> [k \in {"provider"} |-> "OpenAI"],
       outcome_data |-> [k \in {"api_key"} |-> "secret"]] }

\* Signal.Redact(fields...): listed keys that are present are overwritten.
RedactMapAddsKeys(m, fields) ==
    [k \in DOMAIN m \cup fields |->
        IF k \in fields THEN REDACTED ELSE m[k]]

RedactMap(m, fields) ==
    [k \in DOMAIN m |-> IF k \in fields THEN REDACTED ELSE m[k]]

Redact(sig, fields) ==
    [sig EXCEPT !.metadata = RedactMap(@, fields),
                !.outcome_data = RedactMap(@, fields)]

VARIABLES
    signalCh,       \* the buffered signal channel, a FIFO of signals
    handler,        \* per connection: position and data of the proxy handler
    created,        \* number of signals built so far
    startLaunched,  \* whether `go sender.Start(ctx, signalCh)` was started
    senderPc,       \* SignalSender.Start: "select", "send" or "returned"
    batch,          \* SignalSender.Start: the buffered batch
    attempt,        \* sendBatchWithRetry: the retry counter
    flushCause,     \* what triggered the flush in progress
    posts,          \* POSTs made by the sendBatchWithRetry call in progress
    lastDelay,      \* the last backoff delay slept, in seconds
    received,       \* signals taken from the channel by Start
    flushes,        \* calls of sendBatchWithRetry made by Start
    ticked,         \* whether the flush ticker has fired
    lastPost,       \* the most recent POST: who made it, its body, its answer
    signalsSent,    \* counter axom_signals_sent_total
    signalsDropped, \* counter axom_signals_dropped_total
    ctxDone,        \* the cancellation context is done
    coordPc,        \* processSignals: "select", "sending" or "returned"
    coordSig,       \* processSignals: the signal being sent
    mainPc,         \* main: "running", "stopping" or "exited"
    rcvLog,         \* arrival stamps of the signals Start received, in order
    postLog,        \* arrival stamps in the batches Start POSTed, in order
    mu,             \* MITMProxy.mu: 0 when free, else the caller holding it
    certCache,      \* MITMProxy.certCache: hostname -> leaf certificate
    caller,         \* per TLS handshake: position in getOrCreateCert
    leafIssued,     \* leaves generated by generateLeafCert, per hostname
    nextKey,        \* key pairs generated so far (rsa.GenerateKey)
    connects,       \* CONNECT requests handled by HTTPSProxy
    connectLeaves,  \* leaves generated by HTTPSProxy.generateCert, per hostname
    now,            \* the reading of the system clock, time.Now().UnixNano()
    issued,         \* the signal ids generated so far, with the proxy of each
    fnOp,           \* the function applied last
    fnIn,           \* its arguments
    fnOut,          \* its result
    caFiles,        \* per CA owner: whether its certificate and key files exist
    caPc,           \* per CA owner: position of its startup in the CA code
    caErr,          \* per CA owner: whether the last CA step returned an error
    caStarts,       \* per CA owner: startups so far
    bootPc,         \* position of main in the startup of the monitor
    listener,       \* per proxy: state of its listener goroutine
    startErr        \* whether AITrafficMonitor.Start returned an error

pipeVars == <<signalCh, handler, created, startLaunched, senderPc, batch,
              attempt, flushCause, posts, lastDelay, received, flushes,
              ticked, lastPost, signalsSent, signalsDropped, ctxDone,
              coordPc, coordSig, mainPc, rcvLog, postLog>>

\* What Start received and what it POSTed (history of the exporter).
logVars == <<rcvLog, postLog>>

certVars == <<mu, certCache, caller, leafIssued, nextKey, connects, connectLeaves>>

\* The clock and the ids drawn from it.
idVars == <<now, issued>>

\* The last call of a function of the program that has no state of its own.
fnVars == <<fnOp, fnIn, fnOut>>

\* Startup: the CA files and the listeners.
bootVars == <<caFiles, caPc, caErr, caStarts, bootPc, listener, startErr>>

auxVars == <<idVars, fnVars, bootVars>>

vars == <<pipeVars, certVars, auxVars>>

\* Hostnames of TLS handshakes and CONNECT requests.
Hosts == {"api.openai.com", "api.anthropic.com"}

Callers == 1..NumCallers

\* A leaf certificate: the DNS name it is for and its key pair.  NoCert is a
\* nil *tls.Certificate (or the empty tls.Certificate{}).
NoCert == [host |-> "", key |-> 0]

IdleCaller == [pc |-> "idle", host |-> "", cert |-> NoCert, ret |-> NoCert, err |-> FALSE]

\* A request as the handler sees it: r.URL.Host and r.URL.Path.
NoRequest == [host |-> <<>>, path |-> <<>>]

\* The code that keeps a root CA on disk: HTTPSProxy (certs/ca.crt, certs/ca.key)
\* and MITMProxy (CACertPath, CAKeyPath).
CAOwners == {"https", "mitm"}

\* The proxies that AITrafficMonitor.Start starts.
Listeners == {"http", "prod"}

\* The nil *models.Task.
NoTask == [id |-> <<>>, type |-> "", confidence |-> 0]

\* The arguments and the result before any call.  Each call below records
\* its arguments and its result as a record with fields of its own.
NoInput == [none |-> TRUE]

NoOutput == [none |-> TRUE]

IdleHandler == [pc |-> "idle", kind |-> "http", req |-> NoRequest,
                outcome |-> "none", sig |-> NoSignal, handoff |-> "none",
                upstream |-> FALSE, status |-> 0, body |-> ""]

Init ==
    /\ signalCh = <<>>
    /\ handler = [h \in Handlers |-> IdleHandler]
    /\ created = 0
    /\ startLaunched = FALSE
    /\ senderPc = "select"
    /\ batch = <<>>
    /\ attempt = 0
    /\ flushCause = "none"
    /\ posts = 0
    /\ lastDelay = 0
    /\ received = 0
    /\ flushes = 0
    /\ ticked = FALSE
    /\ lastPost = [via |-> "none", body |-> <<>>, status |-> 0]
    /\ signalsSent = 0
    /\ signalsDropped = 0
    /\ ctxDone = FALSE
    /\ coordPc = "select"
    /\ coordSig = NoSignal
    /\ mainPc = "running"
    /\ rcvLog = <<>>
    /\ postLog = <<>>
    /\ mu = 0
    /\ certCache = [h \in Hosts |-> NoCert]
    /\ caller = [c \in Callers |-> IdleCaller]
    /\ leafIssued = [h \in Hosts |-> 0]
    /\ nextKey = 0
    /\ connects = 0
    /\ connectLeaves = [h \in Hosts |-> 0]
    /\ now = 0
    /\ issued = <<>>
    /\ fnOp = "none"
    /\ fnIn = NoInput
    /\ fnOut = NoOutput
    /\ caFiles = [o \in CAOwners |-> [cert |-> FALSE, key |-> FALSE]]
    /\ caPc = [o \in CAOwners |-> "idle"]
    /\ caErr = [o \in CAOwners |-> FALSE]
    /\ caStarts = [o \in CAOwners |-> 0]
    /\ bootPc = "init"
    /\ listener = [p \in Listeners |-> "none"]
    /\ startErr = FALSE

Alive == mainPc # "exited"

(***************************************************************************)
(* Proxy handlers: HTTPProxy.handleRequest ("http"),                        *)
(* HTTPSProxy.processHTTPSRequest ("tls") and                               *)
(* ProductionProxy.handleResponse ("prod").                                 *)
(***************************************************************************)
Kinds == {"http", "tls", "prod"}

\* What the environment makes of one request: no provider detected, request
\* body unreadable, upstream call failed, or upstream response obtained.
Outcomes == {"notai", "badbody", "upfail", "ok"}

OpenAIHost == <<"api", ".openai", ".com">>

OtherHost == <<"example", ".com">>

ChatPath == <<"/v1", "/chat", "/completions">>

OtherPath == <<"/health">>

\* The requests the clients make.  On the CONNECT path the host of the
\* request is the target of `CONNECT host:port` as the server reports it in
\* r.Host (handleTLSConnection: req.URL.Host = host), port included; a
\* client may also name the target without a port.
RequestsOf(k) ==
    CASE k = "http" -> { [host |-> OpenAIHost, path |-> ChatPath],
                         [host |-> OpenAIHost, path |-> OtherPath],
                         [host |-> OtherHost, path |-> ChatPath] }
      [] k = "tls" -> { [host |-> OpenAIHost \o <<":443">>, path |-> ChatPath],
                        [host |-> OpenAIHost, path |-> ChatPath] }
      [] OTHER -> { [host |-> OpenAIHost, path |-> ChatPath] }

\* A listener accepts a connection; a handler goroutine starts on it and
\* reads the request.
Accept(h, k, r) ==
    /\ mainPc = "running"
    /\ handler[h].pc \in {"idle", "done"}
    /\ r \in RequestsOf(k)
    /\ handler' = [handler EXCEPT
          ![h] = [IdleHandler EXCEPT !.pc = "request", !.kind = k, !.req = r]]
    /\ UNCHANGED <<signalCh, created, startLaunched, senderPc, batch, attempt,
                   flushCause, posts, lastDelay, received, flushes, ticked,
                   lastPost, signalsSent, signalsDropped, ctxDone, coordPc,
                   coordSig, mainPc>>
    /\ UNCHANGED logVars
    /\ UNCHANGED certVars
    /\ UNCHANGED auxVars

\* An early return that writes nothing to the client.
EarlyStatusSilent(k, o) == {0}

\* A reply that is the same for every early return.
EarlyStatusUniform(k, o) == {500}

\* What the client gets when the handler returns early; 0 means that nothing
\* is written.  HTTPProxy answers 404 (forwardRequest), 400 and 503.
\* processHTTPSRequest returns without writing when the body or the upstream
\* fails, and for a request that is no AI call forwardTLSRequest copies the
\* upstream's response (200 here) or, when the upstream fails, nothing.
\* ProductionProxy.handleResponse returns nil when the body cannot be read.
EarlyStatus(k, o) ==
    IF k = "http"
    THEN (CASE o = "notai" -> {404}
            [] o = "badbody" -> {400}
            [] OTHER -> {503})
    ELSE IF k = "tls" /\ o = "notai" THEN {0, 200}
    ELSE {0}

\* An early reply without its text.
EarlyBodyEmpty(k, o) == ""

\* The text http.Error writes with the status of an early return of
\* HTTPProxy; the other handlers write no text of their own.
EarlyBody(k, o) ==
    IF k = "http"
    THEN (CASE o = "notai" -> "Not an AI API endpoint"
            [] o = "badbody" -> "Bad request"
            [] OTHER -> "Service unavailable")
    ELSE ""

\* Whether the handler has called the upstream when it is through with
\* outcome o: HTTPProxy.forwardRequest calls no one and a request whose body
\* cannot be read is not forwarded; forwardTLSRequest and forwardAIRequest
\* call client.Do; ProductionProxy.handleResponse runs on the upstream's
\* response.
CalledUpstream(k, o) ==
    CASE k = "http" -> o \in {"upfail", "ok"}
      [] k = "tls" -> o \in {"notai", "upfail", "ok"}
      [] OTHER -> TRUE

\* The handler up to the point where the signal is built (or to its early
\* return): provider detection, request body, upstream call, response body,
\* createSignal.  The request is an AI call exactly when a provider is
\* detected.
HandleRequest(h, o) ==
    /\ Alive
    /\ handler[h].pc = "request"
    /\ LET k == handler[h].kind
           r == handler[h].req
           provider == Detect(k, r.host, r.path)
       IN  /\ (o = "notai") <=> (provider = NoProvider)
           /\ \/ /\ o = "ok"
                 /\ created < MaxBuilt
                 /\ created' = created + 1
                 /\ handler' = [handler EXCEPT
                       ![h].pc = "offer",
                       ![h].req = NoRequest,
                       ![h].outcome = o,
                       ![h].upstream = CalledUpstream(k, o),
                       ![h].sig = createSignal(created + 1, k, provider, r.path,
                                                 EmptyMap, EmptyMap)]
              \/ /\ o # "ok"
                 /\ k # "prod" \/ o = "badbody"
                 /\ created' = created
                 /\ \E st \in EarlyStatus(k, o) :
                       handler' = [handler EXCEPT
                          ![h].pc = "done",
                          ![h].req = NoRequest,
                          ![h].outcome = o,
                          ![h].upstream = CalledUpstream(k, o),
                          ![h].status = st,
                          ![h].body = IF st = 0 THEN "" ELSE EarlyBody(k, o)]
    /\ UNCHANGED <<signalCh, startLaunched, senderPc, batch, attempt,
                   flushCause, posts, lastDelay, received, flushes, ticked,
                   lastPost, signalsSent, signalsDropped, ctxDone, coordPc,
                   coordSig, mainPc>>
    /\ UNCHANGED logVars
    /\ UNCHANGED certVars
    /\ UNCHANGED auxVars

\* A handoff without the default case: `p.signalCh <- signal`.
OfferBlocking(h) ==
    /\ Alive
    /\ handler[h].pc = "offer"
    /\ Len(signalCh) < ChanCap
    /\ signalCh' = Append(signalCh, handler[h].sig)
    /\ handler' = [handler EXCEPT ![h].pc = "respond", ![h].handoff = "sent",
                                  ![h].sig = NoSignal]
    /\ UNCHANGED <<created, startLaunched, senderPc, batch, attempt,
                   flushCause, posts, lastDelay, received, flushes, ticked,
                   lastPost, signalsSent, signalsDropped, ctxDone, coordPc,
                   coordSig, mainPc>>
    /\ UNCHANGED logVars
    /\ UNCHANGED certVars
    /\ UNCHANGED auxVars

\* select { case p.signalCh <- signal: ... default: log "dropping signal" }
\* (the handler does not use the signal after the handoff)
Offer(h) ==
    /\ Alive
    /\ handler[h].pc = "offer"
    /\ IF Len(signalCh) < ChanCap
       THEN /\ signalCh' = Append(signalCh, handler[h].sig)
            /\ handler' = [handler EXCEPT ![h].pc = "respond", ![h].handoff = "sent",
                                          ![h].sig = NoSignal]
       ELSE /\ signalCh' = signalCh
            /\ handler' = [handler EXCEPT ![h].pc = "respond", ![h].handoff = "dropped",
                                          ![h].sig = NoSignal]
    /\ UNCHANGED <<created, startLaunched, senderPc, batch, attempt,
                   flushCause, posts, lastDelay, received, flushes, ticked,
                   lastPost, signalsSent, signalsDropped, ctxDone, coordPc,
                   coordSig, mainPc>>
    /\ UNCHANGED logVars
    /\ UNCHANGED certVars
    /\ UNCHANGED auxVars

\* A handler that writes the response before it offers the signal.
RespondEarly(h) ==
    /\ Alive
    /\ handler[h].pc \in {"offer", "respond"}
    /\ handler[h].status = 0
    /\ handler' = [handler EXCEPT
          ![h].pc = IF handler[h].pc = "offer" THEN "offer" ELSE "done",
          ![h].status = 200,
          ![h].body = "upstream"]
    /\ UNCHANGED <<signalCh, created, startLaunched, senderPc, batch, attempt,
                   flushCause, posts, lastDelay, received, flushes, ticked,
                   lastPost, signalsSent, signalsDropped, ctxDone, coordPc,
                   coordSig, mainPc>>
    /\ UNCHANGED logVars
    /\ UNCHANGED certVars
    /\ UNCHANGED auxVars

\* w.WriteHeader(resp.StatusCode); w.Write(respBodyBytes) / resp.Write(tlsConn):
\* the upstream's response (200 and its body here) goes to the client.
Respond(h) ==
    /\ Alive
    /\ handler[h].pc = "respond"
    /\ handler' = [handler EXCEPT ![h].pc = "done", ![h].status = 200,
                                  ![h].body = "upstream"]
    /\ UNCHANGED <<signalCh, created, startLaunched, senderPc, batch, attempt,
                   flushCause, posts, lastDelay, received, flushes, ticked,
                   lastPost, signalsSent, signalsDropped, ctxDone, coordPc,
                   coordSig, mainPc>>
    /\ UNCHANGED logVars
    /\ UNCHANGED certVars
    /\ UNCHANGED auxVars

\* Another holder of the channel's send side sends a signal (a blocking send,
\* as TrafficSniffer.processPacket does).
Submit(shape) ==
    /\ Alive
    /\ created < MaxSignals
    /\ Len(signalCh) < ChanCap
    /\ created' = created + 1
    /\ signalCh' = Append(signalCh, [seq |-> created + 1,
                                     protocol |-> "tls",
                                     metadata |-> shape.metadata,
                                     outcome_data |-> shape.outcome_data])
    /\ UNCHANGED <<handler, startLaunched, senderPc, batch, attempt,
                   flushCause, posts, lastDelay, received, flushes, ticked,
                   lastPost, signalsSent, signalsDropped, ctxDone, coordPc,
                   coordSig, mainPc>>
    /\ UNCHANGED logVars
    /\ UNCHANGED certVars
    /\ UNCHANGED auxVars

(***************************************************************************)
(* The exporter loop SignalSender.Start and sendBatchWithRetry.             *)
(***************************************************************************)
Retryable(st) == st = 0 \/ st = 429 \/ (st >= 500 /\ st < 600)

Success(st) == st >= 200 /\ st < 300

\* flush := func() { if len(batch) > 0 { s.sendBatchWithRetry(batch); ... } }
\* b is the buffer at the call, cause what triggered it, after the position
\* of Start when nothing is to be flushed.
Flush(b, cause, after) ==
    IF Len(b) > 0
    THEN /\ senderPc' = "send"
         /\ flushCause' = cause
         /\ attempt' = 0
         /\ posts' = 0
         /\ flushes' = flushes + 1
    ELSE /\ senderPc' = after
         /\ UNCHANGED <<flushCause, attempt, posts, flushes>>

\* A size check that flushes on every signal received.
BatchFullEager(b) == Len(b) >= 1

\* go sender.Start(ctx, signalCh), at startup (cmd/observer/main.go); the
\* main of main.go starts processSignals only.
StartLaunch ==
    /\ mainPc = "running"
    /\ ~startLaunched
    /\ ~ctxDone
    /\ created = 0
    /\ startLaunched' = TRUE
    /\ UNCHANGED <<signalCh, handler, created, senderPc, batch, attempt,
                   flushCause, posts, lastDelay, received, flushes, ticked,
                   lastPost, signalsSent, signalsDropped, ctxDone, coordPc,
                   coordSig, mainPc>>
    /\ UNCHANGED logVars
    /\ UNCHANGED certVars
    /\ UNCHANGED auxVars

\* len(batch) >= s.batchSize
BatchFull(b) == Len(b) >= BatchSize

\* A buffer that puts the newest signal first.
AppendToBatchFront(b, sig) == <<sig>> \o b

\* batch = append(batch, sig)
AppendToBatch(b, sig) == Append(b, sig)

\* The arrival stamps of the signals of a batch, in the batch's order.
Seqs(b) == [i \in 1..Len(b) |-> b[i].seq]

\* case sig := <-ch
ExporterReceive ==
    /\ Alive
    /\ startLaunched
    /\ senderPc = "select"
    /\ Len(signalCh) > 0
    /\ signalCh' = Tail(signalCh)
    /\ batch' = AppendToBatch(batch, Redact(Head(signalCh), SensitiveFields))
    /\ received' = received + 1
    /\ rcvLog' = Append(rcvLog, Head(signalCh).seq)
    /\ postLog' = postLog
    /\ IF BatchFull(batch')
       THEN Flush(batch', "size", "select")
       ELSE UNCHANGED <<senderPc, flushCause, attempt, posts, flushes>>
    /\ UNCHANGED <<handler, created, startLaunched, lastDelay, ticked,
                   lastPost, signalsSent, signalsDropped, ctxDone, coordPc,
                   coordSig, mainPc>>
    /\ UNCHANGED certVars
    /\ UNCHANGED auxVars

\* A ticker case that does not flush.
ExporterTickIdle ==
    /\ Alive
    /\ startLaunched
    /\ senderPc = "select"
    /\ ticked' = TRUE
    /\ UNCHANGED <<senderPc, flushCause, attempt, posts, flushes>>
    /\ UNCHANGED <<signalCh, handler, created, startLaunched, batch,
                   lastDelay, received, lastPost, signalsSent,
                   signalsDropped, ctxDone, coordPc, coordSig, mainPc>>
    /\ UNCHANGED logVars
    /\ UNCHANGED certVars
    /\ UNCHANGED auxVars

\* case <-ticker.C
ExporterTick ==
    /\ Alive
    /\ startLaunched
    /\ senderPc = "select"
    /\ ticked' = TRUE
    /\ Flush(batch, "tick", "select")
    /\ UNCHANGED <<signalCh, handler, created, startLaunched, batch,
                   lastDelay, received, lastPost, signalsSent,
                   signalsDropped, ctxDone, coordPc, coordSig, mainPc>>
    /\ UNCHANGED logVars
    /\ UNCHANGED certVars
    /\ UNCHANGED auxVars

\* A cancellation case that returns without the flush.
ExporterCancelNoFlush ==
    /\ Alive
    /\ startLaunched
    /\ senderPc = "select"
    /\ ctxDone
    /\ senderPc' = "returned"
    /\ UNCHANGED <<flushCause, attempt, posts, flushes>>
    /\ UNCHANGED <<signalCh, handler, created, startLaunched, batch,
                   lastDelay, received, ticked, lastPost, signalsSent,
                   signalsDropped, ctxDone, coordPc, coordSig, mainPc>>
    /\ UNCHANGED logVars
    /\ UNCHANGED certVars
    /\ UNCHANGED auxVars

\* case <-ctx.Done(): flush(); return
ExporterCancel ==
    /\ Alive
    /\ startLaunched
    /\ senderPc = "select"
    /\ ctxDone
    /\ Flush(batch, "cancel", "returned")
    /\ UNCHANGED <<signalCh, handler, created, startLaunched, batch,
                   lastDelay, received, ticked, lastPost, signalsSent,
                   signalsDropped, ctxDone, coordPc, coordSig, mainPc>>
    /\ UNCHANGED logVars
    /\ UNCHANGED certVars
    /\ UNCHANGED auxVars

\* if !retry || attempt >= maxRetries
GiveUp(retry, att) == ~retry \/ att >= maxRetries

\* A sendBatchOnce that counts the batch as dropped on every failed POST.
DroppedOnAnyFailure(st, n) == IF ~Success(st) THEN n ELSE 0

\* sendBatchOnce on a non-retryable status: signalsDropped.Add(len(signals))
DroppedOnce(st, n) == IF ~Success(st) /\ ~Retryable(st) THEN n ELSE 0

\* A sendBatchOnce that counts one signal per successful POST.
SentOnePerPost(st, n) == IF Success(st) THEN 1 ELSE 0

\* sendBatchOnce on a 2xx status: signalsSent.Add(len(signals))
SentOnce(st, n) == IF Success(st) THEN n ELSE 0

\* A backoff that grows linearly.
DelayLinear(att) == (att + 1) * baseDelay

\* delay := time.Duration(math.Pow(2, float64(attempt))) * baseDelay
Delay(att) == (2 ^ att) * baseDelay

\* A flush that leaves the buffer as it was.
TruncateKeeps(b) == b

\* batch = batch[:0]
Truncate(b) == SubSeq(b, 1, 0)

\* A Start that returns when its batch was dropped.
AfterFlushStopsOnDrop(cause, sent) ==
    IF cause = "cancel" \/ ~sent THEN "returned" ELSE "select"

\* flush() is over, the batch sent or not: Start selects again, or returns
\* in the ctx.Done() case.
AfterFlush(cause, sent) == IF cause = "cancel" THEN "returned" ELSE "select"

\* One iteration of the loop of sendBatchWithRetry: a POST (sendBatchOnce)
\* answered st, then return, or sleep and count the attempt.  When the call
\* returns, flush empties the buffer and Start goes on (or returns, after
\* the flush of the cancellation case).
ExporterPost(st) ==
    /\ Alive
    /\ senderPc = "send"
    /\ posts' = posts + 1
    /\ lastPost' = [via |-> "start", body |-> batch, status |-> st]
    /\ postLog' = IF posts = 0 THEN postLog \o Seqs(batch) ELSE postLog
    /\ rcvLog' = rcvLog
    /\ signalsSent' = signalsSent + SentOnce(st, Len(batch))
    /\ IF Success(st)
       THEN /\ signalsDropped' = signalsDropped
            /\ batch' = Truncate(batch)
            /\ senderPc' = AfterFlush(flushCause, TRUE)
            /\ UNCHANGED <<attempt, lastDelay>>
       ELSE IF GiveUp(Retryable(st), attempt)
       THEN /\ signalsDropped' = signalsDropped + DroppedOnce(st, Len(batch)) + Len(batch)
            /\ batch' = Truncate(batch)
            /\ senderPc' = AfterFlush(flushCause, FALSE)
            /\ UNCHANGED <<attempt, lastDelay>>
       ELSE /\ lastDelay' = Delay(attempt)
            /\ attempt' = attempt + 1
            /\ UNCHANGED <<signalsDropped, batch, senderPc>>
    /\ UNCHANGED <<signalCh, handler, created, startLaunched, flushCause,
                   received, flushes, ticked, ctxDone, coordPc, coordSig,
                   mainPc>>
    /\ UNCHANGED certVars
    /\ UNCHANGED auxVars

(***************************************************************************)
(* The coordinator: processSignals and SignalSender.Send.                   *)
(***************************************************************************)
\* case sig := <-signalCh
CoordReceive ==
    /\ Alive
    /\ coordPc = "select"
    /\ Len(signalCh) > 0
    /\ signalCh' = Tail(signalCh)
    /\ coordSig' = Head(signalCh)
    /\ coordPc' = "sending"
    /\ UNCHANGED <<handler, created, startLaunched, senderPc, batch, attempt,
                   flushCause, posts, lastDelay, received, flushes, ticked,
                   lastPost, signalsSent, signalsDropped, ctxDone, mainPc>>
    /\ UNCHANGED logVars
    /\ UNCHANGED certVars
    /\ UNCHANGED auxVars

\* Answers to the POST of SendBatchCompat, one of each kind it tells apart:
\* client.Do failed, a status below 300, a status of 300 or above.
SendStatuses == {0, 200, 300}

\* A Send that reports client and server errors only.
SendErrFrom400(st) == st = 0 \/ st >= 400

\* What SendBatchCompat returns: the error of client.Do (status 0 here), an
\* httpStatusError `if resp.StatusCode >= 300`, nil otherwise.
SendErr(st) == st = 0 \/ st >= 300

\* The field list SignalSender.Send passes to Redact: sig.Redact()
SendRedactFields == {}

\* sender.Send(sig): sig.Redact(); SendBatchCompat([]models.Signal{sig}),
\* one POST answered st, no retry, no counter; err is what Send returns.
CoordSend(st) ==
    /\ Alive
    /\ coordPc = "sending"
    /\ lastPost' = [via |-> "send",
                    body |-> <<Redact(coordSig, SendRedactFields)>>,
                    status |-> st,
                    err |-> SendErr(st)]
    /\ coordSig' = NoSignal
    /\ coordPc' = "select"
    /\ UNCHANGED <<signalCh, handler, created, startLaunched, senderPc, batch,
                   attempt, flushCause, posts, lastDelay, received, flushes,
                   ticked, signalsSent, signalsDropped, ctxDone, mainPc>>
    /\ UNCHANGED logVars
    /\ UNCHANGED certVars
    /\ UNCHANGED auxVars

\* case <-ctx.Done(): return
CoordCancel ==
    /\ Alive
    /\ coordPc = "select"
    /\ ctxDone
    /\ coordPc' = "returned"
    /\ UNCHANGED <<signalCh, handler, created, startLaunched, senderPc, batch,
                   attempt, flushCause, posts, lastDelay, received, flushes,
                   ticked, lastPost, signalsSent, signalsDropped, ctxDone,
                   coordSig, mainPc>>
    /\ UNCHANGED logVars
    /\ UNCHANGED certVars
    /\ UNCHANGED auxVars

(***************************************************************************)
(* main: signal.NotifyContext, <-ctx.Done(), aiMonitor.Stop, Sleep, exit.   *)
(***************************************************************************)
\* SIGINT / SIGTERM arrives: the context is cancelled.
Interrupt ==
    /\ mainPc = "running"
    /\ ~ctxDone
    /\ ctxDone' = TRUE
    /\ UNCHANGED <<signalCh, handler, created, startLaunched, senderPc, batch,
                   attempt, flushCause, posts, lastDelay, received, flushes,
                   ticked, lastPost, signalsSent, signalsDropped, coordPc,
                   coordSig, mainPc>>
    /\ UNCHANGED logVars
    /\ UNCHANGED certVars
    /\ UNCHANGED auxVars

\* <-ctx.Done(); aiMonitor.Stop(ctx): the listeners stop accepting.
MainStop ==
    /\ mainPc = "running"
    /\ ctxDone
    /\ mainPc' = "stopping"
    /\ UNCHANGED <<signalCh, handler, created, startLaunched, senderPc, batch,
                   attempt, flushCause, posts, lastDelay, received, flushes,
                   ticked, lastPost, signalsSent, signalsDropped, ctxDone,
                   coordPc, coordSig>>
    /\ UNCHANGED logVars
    /\ UNCHANGED certVars
    /\ UNCHANGED auxVars

\* time.Sleep(1 * time.Second) is over and main returns: the process exits.
MainExit ==
    /\ mainPc = "stopping"
    /\ mainPc' = "exited"
    /\ UNCHANGED <<signalCh, handler, created, startLaunched, senderPc, batch,
                   attempt, flushCause, posts, lastDelay, received, flushes,
                   ticked, lastPost, signalsSent, signalsDropped, ctxDone,
                   coordPc, coordSig>>
    /\ UNCHANGED logVars
    /\ UNCHANGED certVars
    /\ UNCHANGED auxVars

(***************************************************************************)
(* The exporter side of the pipeline: senders on the channel, the exporter  *)
(* loop, the coordinator and main.                                          *)
(***************************************************************************)
Next ==
    \/ StartLaunch
    \/ \E shape \in SubmittedShapes : Submit(shape)
    \/ ExporterReceive
    \/ ExporterTick
    \/ ExporterCancel
    \/ \E st \in Statuses : ExporterPost(st)
    \/ CoordReceive
    \/ \E st \in SendStatuses : CoordSend(st)
    \/ CoordCancel
    \/ Interrupt
    \/ MainStop
    \/ MainExit

Spec == Init /\ [][Next]_vars

(***************************************************************************)
(* Shutdown right after startup: the same process, with the interrupt       *)
(* arriving before Start has taken a signal from the channel, so that every *)
(* signal Start receives it receives after the cancellation.                *)
(***************************************************************************)
InterruptAtStart ==
    /\ received = 0
    /\ Interrupt

NextShutdown ==
    \/ StartLaunch
    \/ \E shape \in SubmittedShapes : Submit(shape)
    \/ ExporterReceive
    \/ ExporterTick
    \/ ExporterCancel
    \/ \E st \in Statuses : ExporterPost(st)
    \/ CoordReceive
    \/ \E st \in SendStatuses : CoordSend(st)
    \/ CoordCancel
    \/ InterruptAtStart
    \/ MainStop
    \/ MainExit

SpecShutdown == Init /\ [][NextShutdown]_vars

(***************************************************************************)
(* The exporter while the process runs: no shutdown, the flush ticker keeps *)
(* firing and the loop of Start (with the POSTs of sendBatchWithRetry, each *)
(* bounded by the client's timeout) keeps being scheduled.                  *)
(***************************************************************************)
NextRunning ==
    \/ StartLaunch
    \/ \E shape \in SubmittedShapes : Submit(shape)
    \/ ExporterReceive
    \/ ExporterTick
    \/ \E st \in Statuses : ExporterPost(st)
    \/ CoordReceive
    \/ \E st \in SendStatuses : CoordSend(st)

SpecRunning ==
    /\ Init
    /\ [][NextRunning]_vars
    /\ WF_vars(ExporterTick)
    /\ WF_vars(\E st \in Statuses : ExporterPost(st))

(***************************************************************************)
(* The proxy side of the pipeline: connection handlers offering signals to  *)
(* the channel, with the coordinator as the consumer.                       *)
(***************************************************************************)
NextProxy ==
    \/ \E h \in Handlers, k \in Kinds : \E r \in RequestsOf(k) : Accept(h, k, r)
    \/ \E h \in Handlers, o \in Outcomes : HandleRequest(h, o)
    \/ \E h \in Handlers : Offer(h)
    \/ \E h \in Handlers : Respond(h)
    \/ CoordReceive
    \/ \E st \in SendStatuses : CoordSend(st)

SpecProxy == Init /\ [][NextProxy]_vars

(***************************************************************************)
(* Leaf certificates: MITMProxy.getOrCreateCert (mutex and cache) and       *)
(* HTTPSProxy.handleCONNECT (generateCert per CONNECT).                     *)
(***************************************************************************)
\* tls.Config.GetCertificate: a handshake for host calls getOrCreateCert.
CertCall(c, host) ==
    /\ caller[c].pc \in {"idle", "done"}
    /\ caller' = [caller EXCEPT ![c] = [IdleCaller EXCEPT !.pc = "lock", !.host = host]]
    /\ UNCHANGED <<mu, certCache, leafIssued, nextKey, connects, connectLeaves>>
    /\ UNCHANGED pipeVars
    /\ UNCHANGED auxVars

\* A lock that excludes no one.
LockFreeAlways(m) == TRUE

\* sync.Mutex: Lock returns only when no one holds the mutex.
LockFree(m) == m = 0

\* p.mu.Lock()
CertLock(c) ==
    /\ caller[c].pc = "lock"
    /\ LockFree(mu)
    /\ mu' = c
    /\ caller' = [caller EXCEPT ![c].pc = "lookup"]
    /\ UNCHANGED <<certCache, leafIssued, nextKey, connects, connectLeaves>>
    /\ UNCHANGED pipeVars
    /\ UNCHANGED auxVars

\* if cert, ok := p.certCache[serverName]; ok { return cert, nil }
CertLookup(c) ==
    /\ caller[c].pc = "lookup"
    /\ IF certCache[caller[c].host] # NoCert
       THEN caller' = [caller EXCEPT ![c].pc = "unlock",
                                     ![c].ret = certCache[caller[c].host]]
       ELSE caller' = [caller EXCEPT ![c].pc = "generate"]
    /\ UNCHANGED <<mu, certCache, leafIssued, nextKey, connects, connectLeaves>>
    /\ UNCHANGED pipeVars
    /\ UNCHANGED auxVars

\* A generateLeafCert whose failure leaves an entry without key in the cache.
CertGeneratePoisons(c, ok) ==
    /\ caller[c].pc = "generate"
    /\ IF ok
       THEN /\ nextKey' = nextKey + 1
            /\ leafIssued' = [leafIssued EXCEPT ![caller[c].host] = @ + 1]
            /\ caller' = [caller EXCEPT
                  ![c].pc = "insert",
                  ![c].cert = [host |-> caller[c].host, key |-> nextKey + 1]]
            /\ UNCHANGED certCache
       ELSE /\ caller' = [caller EXCEPT ![c].pc = "unlock", ![c].err = TRUE]
            /\ certCache' = [certCache EXCEPT
                  ![caller[c].host] = [host |-> caller[c].host, key |-> 0]]
            /\ UNCHANGED <<nextKey, leafIssued>>
    /\ UNCHANGED <<mu, connects, connectLeaves>>
    /\ UNCHANGED pipeVars
    /\ UNCHANGED auxVars

\* cert, err := generateLeafCert(serverName, caCert, caKey);
\* if err != nil { return nil, err }
CertGenerate(c, ok) ==
    /\ caller[c].pc = "generate"
    /\ IF ok
       THEN /\ nextKey' = nextKey + 1
            /\ leafIssued' = [leafIssued EXCEPT ![caller[c].host] = @ + 1]
            /\ caller' = [caller EXCEPT
                  ![c].pc = "insert",
                  ![c].cert = [host |-> caller[c].host, key |-> nextKey + 1]]
       ELSE /\ caller' = [caller EXCEPT ![c].pc = "unlock", ![c].err = TRUE]
            /\ UNCHANGED <<nextKey, leafIssued>>
    /\ UNCHANGED <<mu, certCache, connects, connectLeaves>>
    /\ UNCHANGED pipeVars
    /\ UNCHANGED auxVars

\* p.certCache[serverName] = cert; return cert, nil
CertInsert(c) ==
    /\ caller[c].pc = "insert"
    /\ certCache' = [certCache EXCEPT ![caller[c].host] = caller[c].cert]
    /\ caller' = [caller EXCEPT ![c].pc = "unlock", ![c].ret = caller[c].cert]
    /\ UNCHANGED <<mu, leafIssued, nextKey, connects, connectLeaves>>
    /\ UNCHANGED pipeVars
    /\ UNCHANGED auxVars

\* defer p.mu.Unlock()
CertUnlock(c) ==
    /\ caller[c].pc = "unlock"
    /\ mu' = IF mu = c THEN 0 ELSE mu
    /\ caller' = [caller EXCEPT ![c].pc = "done"]
    /\ UNCHANGED <<certCache, leafIssued, nextKey, connects, connectLeaves>>
    /\ UNCHANGED pipeVars
    /\ UNCHANGED auxVars

\* HTTPSProxy.handleCONNECT: Certificates: {p.generateCert(r.Host)}.
\* generateCert makes a new key pair and leaf on every call; when it fails
\* it returns the empty tls.Certificate{}.
Connect(host, ok) ==
    /\ connects < MaxConnects
    /\ connects' = connects + 1
    /\ IF ok
       THEN connectLeaves' = [connectLeaves EXCEPT ![host] = @ + 1]
       ELSE UNCHANGED connectLeaves
    /\ UNCHANGED <<mu, certCache, caller, leafIssued, nextKey>>
    /\ UNCHANGED pipeVars
    /\ UNCHANGED auxVars

NextCert ==
    \/ \E c \in Callers, host \in Hosts : CertCall(c, host)
    \/ \E c \in Callers : CertLock(c)
    \/ \E c \in Callers : CertLookup(c)
    \/ \E c \in Callers, ok \in BOOLEAN : CertGenerate(c, ok)
    \/ \E c \in Callers : CertInsert(c)
    \/ \E c \in Callers : CertUnlock(c)
    \/ \E host \in Hosts, ok \in BOOLEAN : Connect(host, ok)

SpecCert == Init /\ [][NextCert]_vars

(***************************************************************************)
(* Signal ids.  Each proxy builds the id of a signal from the clock alone:  *)
(* fmt.Sprintf("signal_%d", time.Now().UnixNano()).  Handlers run on their  *)
(* own goroutines, so nothing orders two readings of the clock.             *)
(***************************************************************************)
\* The id made from one clock reading; the prefix is the same for all ids.
SignalID(t) == <<"signal_", t>>

\* The clock moves on between two readings, or it does not.
ClockAdvance ==
    /\ now < MaxClock
    /\ now' = now + 1
    /\ UNCHANGED issued
    /\ UNCHANGED fnVars
    /\ UNCHANGED pipeVars
    /\ UNCHANGED certVars
    /\ UNCHANGED bootVars

\* generateSignalID of the proxy of kind k, called by createSignal.
generateSignalID(k) ==
    /\ Len(issued) < MaxIds
    /\ issued' = Append(issued, [proxy |-> k, id |-> SignalID(now)])
    /\ UNCHANGED now
    /\ UNCHANGED fnVars
    /\ UNCHANGED pipeVars
    /\ UNCHANGED certVars
    /\ UNCHANGED bootVars

NextIds ==
    \/ ClockAdvance
    \/ \E k \in Kinds : generateSignalID(k)

SpecIds == Init /\ [][NextIds]_vars


(***************************************************************************)
(* The functions of the program that keep no state, applied to arguments    *)
(* drawn from bounded sets.  fnOp names the function applied last, fnIn its *)
(* arguments and fnOut its result; a behaviour makes one call.              *)
(***************************************************************************)
\* Keys that a parsed request or response can carry, with a value for each
\* that differs from what createSignal writes itself.
BodyKeys == {"provider", "endpoint", "model"}

BodyValue(key) ==
    CASE key = "provider" -> "Evil"
      [] key = "endpoint" -> <<"/evil">>
      [] OTHER -> "gpt-4"

Bodies == { [key \in S |-> BodyValue(key)] : S \in SUBSET BodyKeys }

\* createSignal as the handlers call it: after a provider was detected.
ApplyCreateSignal ==
    /\ fnOp = "none"
    /\ \E k \in Kinds : \E r \in RequestsOf(k), request \in Bodies,
                           response \in Bodies :
          LET provider == Detect(k, r.host, r.path)
          IN  /\ provider # NoProvider
              /\ fnOp' = "createSignal"
              /\ fnIn' = [kind |-> k, req |-> r, request |-> request,
                          response |-> response]
              /\ fnOut' = [signal |-> createSignal(1, k, provider, r.path,
                                                   request, response)]
    /\ UNCHANGED idVars
    /\ UNCHANGED pipeVars
    /\ UNCHANGED certVars
    /\ UNCHANGED bootVars

\* Pieces of request paths.
PathPieces ==
    {"/v1", "/chat", "/completions", "/messages", "/generate", "/embed",
     "dings", "/images", "/generations", "/audio", "/transcriptions",
     "/translations", "/moderations"}

RECURSIVE SeqsUpTo(_, _)
SeqsUpTo(S, n) ==
    IF n = 0 THEN {<<>>}
    ELSE LET shorter == SeqsUpTo(S, n - 1)
         IN  shorter \cup {Append(q, x) : q \in shorter, x \in S}

Paths == SeqsUpTo(PathPieces, MaxPathLen)

ApplyDetermineOperation ==
    /\ fnOp = "none"
    /\ \E path \in Paths :
          /\ fnOp' = "determineOperation"
          /\ fnIn' = [path |-> path]
          /\ fnOut' = [operation |-> determineOperation(path)]
    /\ UNCHANGED idVars
    /\ UNCHANGED pipeVars
    /\ UNCHANGED certVars
    /\ UNCHANGED bootVars

\* Signals given to Signal.Redact, and the lists of fields.
RedactMetadataKeys == {"authorization", "api_key", "other"}

RedactOutcomeKeys == {"api_key", "result"}

RedactSignals ==
    { [seq |-> 1, protocol |-> "https",
       metadata |-> [key \in M |-> IF key = "other" THEN "visible"
                                                   ELSE "secret"],
       outcome_data |-> [key \in O |-> IF key = "result" THEN "visible"
                                                        ELSE "secret"]] :
        M \in SUBSET RedactMetadataKeys, O \in SUBSET RedactOutcomeKeys }

RedactFields == SUBSET {"authorization", "api_key", "absent"}

ApplyRedact ==
    /\ fnOp = "none"
    /\ \E sig \in RedactSignals, fields \in RedactFields :
          /\ fnOp' = "Redact"
          /\ fnIn' = [sig |-> sig, fields |-> fields]
          /\ fnOut' = [redacted |-> Redact(sig, fields)]
    /\ UNCHANGED idVars
    /\ UNCHANGED pipeVars
    /\ UNCHANGED certVars
    /\ UNCHANGED bootVars

(***************************************************************************)
(* TaskDetector.  A text is the sequence of its pieces.  A regular          *)
(* expression of the rules is an alternation of literals; the program       *)
(* strings that are compiled as regular expressions are interpreted by      *)
(* Compile.  Confidences and scores are in hundredths.                      *)
(***************************************************************************)
ColdCallRegex == "(?i)(cold call|lead generation|prospecting|sales call|outreach)"

ScriptRegex == "(?i)(script|dialogue|conversation|pitch)"

MeetingRegex == "(?i)(schedule|meeting|appointment|calendar)"

QualifiedRegex == "(?i)(qualified|interested|budget|decision maker)"

EmailRegex == "(?i)(email|newsletter|campaign|blast|sequence)"

EmailGeneratedRegex == "(?i)(subject|body|signature|call to action)"

\* A string that is not a regular expression (missing closing parenthesis).
BadRegex == "("

\* regexp.Compile: err # nil exactly when valid is FALSE; otherwise the
\* expression matches the texts that contain one of alts.
Compile(str) ==
    CASE str = ColdCallRegex ->
            [valid |-> TRUE,
             alts |-> {<<"cold call">>, <<"lead generation">>,
                       <<"prospecting">>, <<"sales call">>, <<"outreach">>}]
      [] str = ScriptRegex ->
            [valid |-> TRUE,
             alts |-> {<<"script">>, <<"dialogue">>, <<"conversation">>,
                       <<"pitch">>}]
      [] str = MeetingRegex ->
            [valid |-> TRUE,
             alts |-> {<<"schedule">>, <<"meeting">>, <<"appointment">>,
                       <<"calendar">>}]
      [] str = QualifiedRegex ->
            [valid |-> TRUE,
             alts |-> {<<"qualified">>, <<"interested">>, <<"budget">>,
                       <<"decision maker">>}]
      [] str = EmailRegex ->
            [valid |-> TRUE,
             alts |-> {<<"email">>, <<"newsletter">>, <<"campaign">>,
                       <<"blast">>, <<"sequence">>}]
      [] str = EmailGeneratedRegex ->
            [valid |-> TRUE,
             alts |-> {<<"subject">>, <<"body">>, <<"signature">>,
                       <<"call to action">>}]
      [] str = BadRegex -> [valid |-> FALSE, alts |-> {}]
      [] OTHER -> [valid |-> TRUE, alts |-> {<<str>>}]

\* regexp.MatchString(pattern, text): matched and err.
MatchString(pattern, text) ==
    LET re == Compile(pattern)
    IN  [matched |-> re.valid /\ \E alt \in re.alts : Contains(text, alt),
         err |-> ~re.valid]

\* matchesConditions: `for pattern := range conditions` ranges over the KEYS
\* of the map; a key that does not compile is logged and skipped, a key that
\* does not match returns false, and the loop falling through returns true.
matchesConditions(text, conditions) ==
    \A key \in DOMAIN conditions :
        LET m == MatchString(key, text)
        IN  m.err \/ m.matched

\* initializeTaskRules: the first two rules, in their order.
taskRules ==
    << [Name |-> "cold_calling",
        Provider |-> "any",
        Patterns |->
           << [Type |-> "prompt",
               Conditions |-> [content |-> ColdCallRegex],
               Confidence |-> 80, Required |-> TRUE],
              [Type |-> "prompt",
               Conditions |-> [content |-> ScriptRegex],
               Confidence |-> 60, Required |-> FALSE] >>,
        Outcomes |->
           << [Name |-> "meeting_scheduled",
               Conditions |-> [response |-> MeetingRegex],
               Outcome |-> "success", Score |-> 100],
              [Name |-> "lead_qualified",
               Conditions |-> [response |-> QualifiedRegex],
               Outcome |-> "success", Score |-> 80] >>],
       [Name |-> "email_marketing",
        Provider |-> "any",
        Patterns |->
           << [Type |-> "prompt",
               Conditions |-> [content |-> EmailRegex],
               Confidence |-> 90, Required |-> TRUE] >>,
        Outcomes |->
           << [Name |-> "email_generated",
               Conditions |-> [response |-> EmailGeneratedRegex],
               Outcome |-> "success", Score |-> 100] >>] >>

\* The metadata key that matchesPattern reads for a pattern type.
PatternField(type) ==
    CASE type = "prompt" -> "prompt_preview"
      [] type = "response" -> "response_preview"
      [] type = "model" -> "model"
      [] type = "endpoint" -> "endpoint"
      [] OTHER -> ""

matchesPattern(signal, pattern) ==
    LET field == PatternField(pattern.Type)
    IN  /\ field \in DOMAIN signal.metadata
        /\ matchesConditions(signal.metadata[field], pattern.Conditions)

matchesTaskRule(signal, rule) ==
    /\ (rule.Provider # "any" /\ "provider" \in DOMAIN signal.metadata)
          => signal.metadata["provider"] = rule.Provider
    /\ \A i \in 1..Len(rule.Patterns) :
          rule.Patterns[i].Required => matchesPattern(signal, rule.Patterns[i])

RECURSIVE SumSeq(_)
SumSeq(q) == IF q = <<>> THEN 0 ELSE Head(q) + SumSeq(Tail(q))

\* calculateConfidence: the mean confidence of the patterns that match.
calculateConfidence(signal, rule) ==
    LET matchedIdx == {i \in 1..Len(rule.Patterns) :
                          matchesPattern(signal, rule.Patterns[i])}
        conf(i) == IF i \in matchedIdx THEN rule.Patterns[i].Confidence ELSE 0
        total == SumSeq([i \in 1..Len(rule.Patterns) |-> conf(i)])
    IN  IF matchedIdx = {} THEN 0 ELSE total \div Cardinality(matchedIdx)

\* generateTaskID: "%s_%s_%s_%d" of customer, agent, type and time.Now().Unix()
generateTaskID(customerID, agentID, taskType, t) ==
    <<customerID, "_", agentID, "_", taskType, "_", t>>

\* DetectTask: the task of the first rule that matches, nil when none does.
DetectTask(signal, t) ==
    LET hits == {i \in 1..Len(taskRules) : matchesTaskRule(signal, taskRules[i])}
    IN  IF hits = {} THEN NoTask
        ELSE LET rule == taskRules[CHOOSE i \in hits : \A j \in hits : i <= j]
             IN  [id |-> generateTaskID(signal.customer, signal.agent,
                                        rule.Name, t),
                  type |-> rule.Name,
                  confidence |-> calculateConfidence(signal, rule)]

\* evaluateOutcomeRule: matches / total * rule.Score over the signals that
\* carry a response_preview, 0 when there is none; as a fraction num / den.
evaluateOutcomeRule(signals, rule) ==
    LET withResp == {i \in 1..Len(signals) :
                        "response_preview" \in DOMAIN signals[i].metadata}
        matches == {i \in withResp :
                       matchesConditions(signals[i].metadata["response_preview"],
                                         rule.Conditions)}
    IN  IF withResp = {} THEN [num |-> 0, den |-> 1]
        ELSE [num |-> Cardinality(matches) * rule.Score,
              den |-> Cardinality(withResp)]

\* The loop of DetermineOutcome over rule.Outcomes[i..]: best is the best
\* outcome so far, data the outcome_data so far.  All scores of one call have
\* the same denominator, so they compare by their numerators.
RECURSIVE OutcomeLoop(_, _, _, _, _)
OutcomeLoop(outcomes, i, signals, best, data) ==
    IF i > Len(outcomes) THEN [outcome |-> best.outcome, data |-> data]
    ELSE LET score == evaluateOutcomeRule(signals, outcomes[i])
         IN  IF score.num > best.score.num
             THEN OutcomeLoop(outcomes, i + 1, signals,
                              [outcome |-> outcomes[i].Outcome, score |-> score],
                              Overlay(data,
                                      [key \in {"outcome_rule", "confidence"} |->
                                          IF key = "outcome_rule"
                                          THEN outcomes[i].Name ELSE score]))
             ELSE OutcomeLoop(outcomes, i + 1, signals, best, data)

\* DetermineOutcome: "unknown" with a reason when no rule has the task's
\* type; otherwise the best outcome, and outcome_data with task_type,
\* total_signals and duration_minutes added after the loop.
DetermineOutcome(taskType, signals) ==
    LET idx == {i \in 1..Len(taskRules) : taskRules[i].Name = taskType}
    IN  IF idx = {}
        THEN [outcome |-> "unknown", data |-> [reason |-> "no_rule_found"]]
        ELSE LET rule == taskRules[CHOOSE i \in idx : \A j \in idx : i <= j]
                 looped == OutcomeLoop(rule.Outcomes, 1, signals,
                                       [outcome |-> "unknown",
                                        score |-> [num |-> 0, den |-> 1]],
                                       EmptyMap)
             IN  [outcome |-> looped.outcome,
                  data |-> Overlay(looped.data,
                              [key \in {"task_type", "total_signals",
                                        "duration_minutes"} |->
                                  CASE key = "task_type" -> taskType
                                    [] key = "total_signals" -> Len(signals)
                                    [] OTHER -> "elapsed"])]

\* Pieces of prompts, and the prompts.
PromptPieces ==
    {"please ", "cold call", " these leads", "script", "content", "email"}

Prompts == SeqsUpTo(PromptPieces, MaxTextLen)

\* The signals given to DetectTask: with and without a prompt_preview.
DetectSignals ==
    {[customer |-> "cust", agent |-> "agent", metadata |-> EmptyMap]} \cup
    {[customer |-> "cust", agent |-> "agent",
      metadata |-> [prompt_preview |-> text]] : text \in Prompts}

ApplyDetectTask ==
    /\ fnOp = "none"
    /\ \E signal \in DetectSignals :
          /\ fnOp' = "DetectTask"
          /\ fnIn' = [signal |-> signal, t |-> now]
          /\ fnOut' = [task |-> DetectTask(signal, now)]
    /\ UNCHANGED idVars
    /\ UNCHANGED pipeVars
    /\ UNCHANGED certVars
    /\ UNCHANGED bootVars

\* Condition maps given to matchesConditions: those of the rules, and maps
\* with a key or a value that does not compile.
ConditionKeys == {"content", BadRegex}

ConditionValues == {ColdCallRegex, BadRegex}

ConditionMaps ==
    UNION { [S -> ConditionValues] : S \in SUBSET ConditionKeys }

ApplyMatchesConditions ==
    /\ fnOp = "none"
    /\ \E text \in Prompts, conditions \in ConditionMaps :
          /\ fnOp' = "matchesConditions"
          /\ fnIn' = [text |-> text, conditions |-> conditions]
          /\ fnOut' = [matched |-> matchesConditions(text, conditions)]
    /\ UNCHANGED idVars
    /\ UNCHANGED pipeVars
    /\ UNCHANGED certVars
    /\ UNCHANGED bootVars

\* The signals given to DetermineOutcome, and the task types.
OutcomeSignals ==
    {[metadata |-> EmptyMap]} \cup
    {[metadata |-> [response_preview |-> text]] :
        text \in {<<"meeting">>, <<"the ", "response">>, <<"sorry">>}}

TaskTypes == {"cold_calling", "email_marketing", "no_such_type"}

ApplyDetermineOutcome ==
    /\ fnOp = "none"
    /\ \E taskType \in TaskTypes,
          signals \in SeqsUpTo(OutcomeSignals, MaxOutcomeSignals) :
          /\ fnOp' = "DetermineOutcome"
          /\ fnIn' = [taskType |-> taskType, signals |-> signals]
          /\ fnOut' = [outcome |-> DetermineOutcome(taskType, signals)]
    /\ UNCHANGED idVars
    /\ UNCHANGED pipeVars
    /\ UNCHANGED certVars
    /\ UNCHANGED bootVars

\* HTTPProxy.detectAIProvider on r.URL.Host and r.URL.Path: the providers'
\* own hosts, a host of a wildcard domain, a host that only contains a
\* provider's domain, the observer's own addresses and a host of no provider.
ApplyDetectAIProvider ==
    /\ fnOp = "none"
    /\ \E host \in { OpenAIHost,
                      <<"api", ".anthropic", ".com">>,
                      <<"myres", ".openai", ".azure", ".com">>,
                      OpenAIHost \o <<".evil", ".org">>,
                      <<"localhost", ":8888">>,
                      <<"localhost", ":8443">>,
                      <<"localhost", ":3000">>,
                      OtherHost },
          path \in { ChatPath,
                      <<"/v1", "/embeddings">>,
                      <<"/v1", "/messages">>,
                      <<"/openai", "/deployments", "/gpt4">>,
                      <<"/api">> \o ChatPath,
                      OtherPath,
                      <<>> } :
          /\ fnOp' = "detectAIProvider"
          /\ fnIn' = [host |-> host, path |-> path]
          /\ fnOut' = [provider |-> DetectHTTP(host, path)]
    /\ UNCHANGED idVars
    /\ UNCHANGED pipeVars
    /\ UNCHANGED certVars
    /\ UNCHANGED bootVars

(***************************************************************************)
(* protocols.extractMySQLSQLOperation and extractPostgresSQLOperation.  A   *)
(* SQL text is the sequence of its words: strings.TrimSpace removes the     *)
(* white space around the text and \s+ of the patterns matches the white    *)
(* space between two words.  The words are those of the texts given to     *)
(* the extractors in ApplyExtractSQLOperation.                              *)
(***************************************************************************)
\* strings.ToUpper and the (?i) flag of the patterns, on one word
ToUpper(w) ==
    CASE w = "select" -> "SELECT"
      [] w = "users" -> "USERS"
      [] w = "logs;" -> "LOGS;"
      [] OTHER -> w

\* strings.HasPrefix(qUpper, keyword): the text starts with the letters of
\* the keyword, whatever follows them.
HasKeywordPrefix(qUpper, keyword) ==
    /\ qUpper # <<>>
    /\ \/ qUpper[1] = keyword
       \/ keyword = "UPDATE" /\ qUpper[1] = "UPDATED"

UpperText(sql) == [i \in 1..Len(sql) |-> ToUpper(sql[i])]

\* A capture group ([^\s;]+) or ([^\s(]+) or ([^\s]+) at the start of word
\* w: the word up to its first excluded character.
Capture(w, excluded) ==
    IF w = "logs;" /\ ";" \in excluded THEN "logs" ELSE w

\* m == nil of FindStringSubmatch
NoMatch == [matched |-> FALSE, table |-> ""]

Submatch(table) == [matched |-> TRUE, table |-> table]

\* Words j of the text that a pattern can take for its FROM, the word after
\* them starting the capture group; `SELECT\s+.*\s+FROM` needs white space
\* on both sides of what .* matches, so FROM is the third word at least.
FromWords(sql) ==
    {j \in 3..(Len(sql) - 1) : ToUpper(sql[j]) = "FROM"}

\* (?i)^SELECT\s+.*\s+FROM\s+([^\s;]+) : .* is greedy, the last FROM wins.
selectRe(sql) ==
    IF Len(sql) >= 1 /\ ToUpper(sql[1]) = "SELECT" /\ FromWords(sql) # {}
    THEN LET last == CHOOSE j \in FromWords(sql) : \A i \in FromWords(sql) : i <= j
         IN  Submatch(Capture(sql[last + 1], {";"}))
    ELSE NoMatch

\* (?i)^INSERT\s+INTO\s+([^\s(]+)
insertRe(sql) ==
    IF Len(sql) >= 3 /\ ToUpper(sql[1]) = "INSERT" /\ ToUpper(sql[2]) = "INTO"
    THEN Submatch(Capture(sql[3], {"("}))
    ELSE NoMatch

\* (?i)^UPDATE\s+([^\s]+)
updateRe(sql) ==
    IF Len(sql) >= 2 /\ ToUpper(sql[1]) = "UPDATE"
    THEN Submatch(Capture(sql[2], {}))
    ELSE NoMatch

\* (?i)^DELETE\s+FROM\s+([^\s;]+)
deleteRe(sql) ==
    IF Len(sql) >= 3 /\ ToUpper(sql[1]) = "DELETE" /\ ToUpper(sql[2]) = "FROM"
    THEN Submatch(Capture(sql[3], {";"}))
    ELSE NoMatch

pgSelectRe(sql) ==
    IF Len(sql) >= 1 /\ ToUpper(sql[1]) = "SELECT" /\ FromWords(sql) # {}
    THEN LET last == CHOOSE j \in FromWords(sql) : \A i \in FromWords(sql) : i <= j
         IN  Submatch(Capture(sql[last + 1], {";"}))
    ELSE NoMatch

pgInsertRe(sql) ==
    IF Len(sql) >= 3 /\ ToUpper(sql[1]) = "INSERT" /\ ToUpper(sql[2]) = "INTO"
    THEN Submatch(Capture(sql[3], {"("}))
    ELSE NoMatch

pgUpdateRe(sql) ==
    IF Len(sql) >= 2 /\ ToUpper(sql[1]) = "UPDATE"
    THEN Submatch(Capture(sql[2], {}))
    ELSE NoMatch

pgDeleteRe(sql) ==
    IF Len(sql) >= 3 /\ ToUpper(sql[1]) = "DELETE" /\ ToUpper(sql[2]) = "FROM"
    THEN Submatch(Capture(sql[3], {";"}))
    ELSE NoMatch

\* The switch of an extractor that compares the text as written.  Each case
\* returns its keyword with m[1] when the pattern matched, with "" otherwise.
extractMySQLSQLOperationCaseSensitive(sql) ==
    CASE HasKeywordPrefix(sql, "SELECT") -> [op |-> "SELECT", table |-> selectRe(sql).table]
      [] HasKeywordPrefix(sql, "INSERT") -> [op |-> "INSERT", table |-> insertRe(sql).table]
      [] HasKeywordPrefix(sql, "UPDATE") -> [op |-> "UPDATE", table |-> updateRe(sql).table]
      [] HasKeywordPrefix(sql, "DELETE") -> [op |-> "DELETE", table |-> deleteRe(sql).table]
      [] OTHER -> [op |-> "", table |-> ""]

extractMySQLSQLOperation(sql) ==
    LET qUpper == UpperText(sql)
    IN  CASE HasKeywordPrefix(qUpper, "SELECT") -> [op |-> "SELECT", table |-> selectRe(sql).table]
          [] HasKeywordPrefix(qUpper, "INSERT") -> [op |-> "INSERT", table |-> insertRe(sql).table]
          [] HasKeywordPrefix(qUpper, "UPDATE") -> [op |-> "UPDATE", table |-> updateRe(sql).table]
          [] HasKeywordPrefix(qUpper, "DELETE") -> [op |-> "DELETE", table |-> deleteRe(sql).table]
          [] OTHER -> [op |-> "", table |-> ""]

extractPostgresSQLOperation(sql) ==
    LET qUpper == UpperText(sql)
    IN  CASE HasKeywordPrefix(qUpper, "SELECT") -> [op |-> "SELECT", table |-> pgSelectRe(sql).table]
          [] HasKeywordPrefix(qUpper, "INSERT") -> [op |-> "INSERT", table |-> pgInsertRe(sql).table]
          [] HasKeywordPrefix(qUpper, "UPDATE") -> [op |-> "UPDATE", table |-> pgUpdateRe(sql).table]
          [] HasKeywordPrefix(qUpper, "DELETE") -> [op |-> "DELETE", table |-> pgDeleteRe(sql).table]
          [] OTHER -> [op |-> "", table |-> ""]

ApplyExtractSQLOperation ==
    /\ fnOp = "none"
    /\ \E sql \in SeqsUpTo({"select", "*", "FROM", "users", "logs;", "INSERT",
                           "INTO", "UPDATE", "UPDATED", "DELETE"}, MaxSqlLen) :
          /\ fnOp' = "extractSQLOperation"
          /\ fnIn' = [sql |-> sql]
          /\ fnOut' = [mysql |-> extractMySQLSQLOperation(sql),
                       postgres |-> extractPostgresSQLOperation(sql)]
    /\ UNCHANGED idVars
    /\ UNCHANGED pipeVars
    /\ UNCHANGED certVars
    /\ UNCHANGED bootVars

NextFn ==
    \/ ApplyCreateSignal
    \/ ApplyDetermineOperation
    \/ ApplyRedact
    \/ ApplyDetectTask
    \/ ApplyMatchesConditions
    \/ ApplyDetermineOutcome
    \/ ApplyDetectAIProvider
    \/ ApplyExtractSQLOperation

SpecFn == Init /\ [][NextFn]_vars


(***************************************************************************)
(* Startup.  The root CA on disk: HTTPSProxy.loadOrGenerateCA with          *)
(* generateAndSaveCA, and MITMProxy's ensureCA with generateCA followed by  *)
(* loadCA.  The files outlive the process; a file operation can fail.       *)
(***************************************************************************)
\* The process starts (again) and reaches the CA code of owner o.
CAStartup(o) ==
    /\ caPc[o] = "idle"
    /\ caStarts[o] < MaxStartups
    /\ caStarts' = [caStarts EXCEPT ![o] = @ + 1]
    /\ caPc' = [caPc EXCEPT ![o] = "stat"]
    /\ caErr' = [caErr EXCEPT ![o] = FALSE]
    /\ UNCHANGED <<caFiles, bootPc, listener, startErr>>
    /\ UNCHANGED <<idVars, fnVars>>
    /\ UNCHANGED pipeVars
    /\ UNCHANGED certVars

\* os.Stat(certPath): only the certificate file decides between generating
\* and loading.  ensureCA returns nil when the certificate is there.
CAStat(o) ==
    /\ caPc[o] = "stat"
    /\ caPc' = [caPc EXCEPT ![o] =
                   IF ~caFiles[o].cert THEN "genCert"
                   ELSE IF o = "https" THEN "load" ELSE "returned"]
    /\ UNCHANGED <<caFiles, caErr, caStarts, bootPc, listener, startErr>>
    /\ UNCHANGED <<idVars, fnVars>>
    /\ UNCHANGED pipeVars
    /\ UNCHANGED certVars

\* Key generation, certificate creation, MkdirAll and os.Create of the
\* certificate file: any failure returns the error with no file written;
\* otherwise the certificate file is written and closed.
CAGenerateCert(o, ok) ==
    /\ caPc[o] = "genCert"
    /\ IF ok
       THEN /\ caFiles' = [caFiles EXCEPT ![o].cert = TRUE]
            /\ caPc' = [caPc EXCEPT ![o] = "genKey"]
            /\ UNCHANGED caErr
       ELSE /\ caPc' = [caPc EXCEPT ![o] = "returned"]
            /\ caErr' = [caErr EXCEPT ![o] = TRUE]
            /\ UNCHANGED caFiles
    /\ UNCHANGED <<caStarts, bootPc, listener, startErr>>
    /\ UNCHANGED <<idVars, fnVars>>
    /\ UNCHANGED pipeVars
    /\ UNCHANGED certVars

\* os.OpenFile / os.Create of the key file: a failure returns the error and
\* leaves the certificate file in place; otherwise the key file is written.
CAGenerateKey(o, ok) ==
    /\ caPc[o] = "genKey"
    /\ IF ok
       THEN /\ caFiles' = [caFiles EXCEPT ![o].key = TRUE]
            /\ UNCHANGED caErr
       ELSE /\ caErr' = [caErr EXCEPT ![o] = TRUE]
            /\ UNCHANGED caFiles
    /\ caPc' = [caPc EXCEPT ![o] = "returned"]
    /\ UNCHANGED <<caStarts, bootPc, listener, startErr>>
    /\ UNCHANGED <<idVars, fnVars>>
    /\ UNCHANGED pipeVars
    /\ UNCHANGED certVars

\* Reading and parsing the pair: in loadOrGenerateCA for HTTPSProxy, in
\* loadCA after ensureCA returned nil for MITMProxy.  A missing key file is
\* an error; nothing is generated again.
CALoad(o, ok) ==
    /\ \/ o = "https" /\ caPc[o] = "load"
       \/ o = "mitm" /\ caPc[o] = "returned" /\ ~caErr[o]
    /\ caErr' = [caErr EXCEPT ![o] = ~(caFiles[o].key /\ ok)]
    /\ caPc' = [caPc EXCEPT ![o] = IF o = "https" THEN "returned" ELSE "loaded"]
    /\ UNCHANGED <<caFiles, caStarts, bootPc, listener, startErr>>
    /\ UNCHANGED <<idVars, fnVars>>
    /\ UNCHANGED pipeVars
    /\ UNCHANGED certVars

\* The process ends; the files stay.
CAExit(o) ==
    /\ caPc[o] \in {"returned", "loaded"}
    /\ caPc' = [caPc EXCEPT ![o] = "idle"]
    /\ UNCHANGED <<caFiles, caErr, caStarts, bootPc, listener, startErr>>
    /\ UNCHANGED <<idVars, fnVars>>
    /\ UNCHANGED pipeVars
    /\ UNCHANGED certVars

(***************************************************************************)
(* Startup of the monitor: main calls AITrafficMonitor.Start, which calls   *)
(* HTTPProxy.Start and ProductionProxy.Start.  Each Start launches its      *)
(* listener in a goroutine and returns nil; the goroutine logs the error    *)
(* of ListenAndServe / proxy.Start.                                         *)
(***************************************************************************)
\* The error that Start of proxy p returns: nil, whatever the listener does.
StartReturnsErr(p) == FALSE

\* HTTPProxy.Start, called first by AITrafficMonitor.Start.
HTTPProxyStart ==
    /\ bootPc = "init"
    /\ listener' = [listener EXCEPT !["http"] = "launched"]
    /\ startErr' = StartReturnsErr("http")
    /\ bootPc' = IF StartReturnsErr("http") THEN "monitorReturned"
                 ELSE "httpStarted"
    /\ UNCHANGED <<caFiles, caPc, caErr, caStarts>>
    /\ UNCHANGED <<idVars, fnVars>>
    /\ UNCHANGED pipeVars
    /\ UNCHANGED certVars

\* ProductionProxy.Start, called second; then AITrafficMonitor.Start returns.
ProductionProxyStart ==
    /\ bootPc = "httpStarted"
    /\ listener' = [listener EXCEPT !["prod"] = "launched"]
    /\ startErr' = StartReturnsErr("prod")
    /\ bootPc' = "monitorReturned"
    /\ UNCHANGED <<caFiles, caPc, caErr, caStarts>>
    /\ UNCHANGED <<idVars, fnVars>>
    /\ UNCHANGED pipeVars
    /\ UNCHANGED certVars

\* The listener goroutine of proxy p: the port is bound, or it is not and the
\* error is logged.
ListenAndServe(p, ok) ==
    /\ listener[p] = "launched"
    /\ listener' = [listener EXCEPT ![p] = IF ok THEN "bound" ELSE "failed"]
    /\ UNCHANGED <<caFiles, caPc, caErr, caStarts, bootPc, startErr>>
    /\ UNCHANGED <<idVars, fnVars>>
    /\ UNCHANGED pipeVars
    /\ UNCHANGED certVars

\* main after aiMonitor.Start: logger.Fatalf (exit status 1) on an error,
\* otherwise "Observer started successfully".
MainAfterStart ==
    /\ bootPc = "monitorReturned"
    /\ bootPc' = IF startErr THEN "fatal" ELSE "started"
    /\ UNCHANGED <<caFiles, caPc, caErr, caStarts, listener, startErr>>
    /\ UNCHANGED <<idVars, fnVars>>
    /\ UNCHANGED pipeVars
    /\ UNCHANGED certVars

NextStartup ==
    \/ \E o \in CAOwners : CAStartup(o)
    \/ \E o \in CAOwners : CAStat(o)
    \/ \E o \in CAOwners, ok \in BOOLEAN : CAGenerateCert(o, ok)
    \/ \E o \in CAOwners, ok \in BOOLEAN : CAGenerateKey(o, ok)
    \/ \E o \in CAOwners, ok \in BOOLEAN : CALoad(o, ok)
    \/ \E o \in CAOwners : CAExit(o)
    \/ HTTPProxyStart
    \/ ProductionProxyStart
    \/ \E p \in Listeners, ok \in BOOLEAN : ListenAndServe(p, ok)
    \/ MainAfterStart

SpecStartup == Init /\ [][NextStartup]_vars


(***************************************************************************)
(* Properties.                                                              *)
(***************************************************************************)

\* C1: when every POST of a batch fails retryably, sendBatchWithRetry makes
\* at most 5 POSTs for that batch before it drops it.
C1_AtMostFivePosts == posts <= 5

\* C2: a POST of a batch answered with a 4xx other than 429 is the last POST
\* of that batch: the batch is dropped, the dropped counter grows by exactly
\* the number of signals in the batch and the sent counter does not change.
C2_NonRetryableCountedOnce ==
    [][(/\ posts' = posts + 1
        /\ lastPost'.status >= 400 /\ lastPost'.status < 500
        /\ lastPost'.status # 429)
       => (/\ senderPc' # "send"
           /\ signalsDropped' = signalsDropped + Len(batch)
           /\ signalsSent' = signalsSent)]_vars

IsRedacted(sig) ==
    /\ \A k \in DOMAIN sig.metadata \cap SensitiveFields :
          sig.metadata[k] = REDACTED
    /\ \A k \in DOMAIN sig.outcome_data \cap SensitiveFields :
          sig.outcome_data[k] = REDACTED

\* C3: in every POSTed body, whether sent by Start or by Send, every
\* authorization and api_key key of metadata and outcome_data holds
\* "[REDACTED]".
C3_PostedBodyRedacted ==
    \A i \in 1..Len(lastPost.body) : IsRedacted(lastPost.body[i])

\* C4: as long as no tick has fired and cancellation has not been observed,
\* Start has flushed exactly once per BatchSize signals received, waits with
\* fewer than BatchSize signals buffered, and each flush and each of its
\* POST bodies carries exactly BatchSize signals.
C4_FlushOnlyWhenFull ==
    (startLaunched /\ ~ticked /\ flushCause # "cancel")
    => /\ flushes = received \div BatchSize
       /\ senderPc = "select" => Len(batch) = received % BatchSize
       /\ senderPc = "send" => Len(batch) = BatchSize
       /\ lastPost.via = "start" => Len(lastPost.body) = BatchSize

\* C4 witness: one size-triggered flush of BatchSize signals was POSTed and
\* no tick or cancellation has occurred.
C4_Witness ==
    /\ startLaunched /\ ~ticked /\ flushCause = "size"
    /\ flushes = 1 /\ received = BatchSize
    /\ senderPc = "select"
    /\ lastPost.via = "start" /\ Len(lastPost.body) = BatchSize

\* C5: a handler at the signal handoff can always take its step, whatever
\* the channel holds and whatever the exporter does; a handler whose signal
\* was discarded because the channel was full still writes the response.
C5_HandoffNeverBlocks ==
    \A h \in Handlers :
        /\ handler[h].pc = "offer" => ENABLED Offer(h)
        /\ handler[h].handoff = "dropped"
           => \/ handler[h].pc = "respond" /\ ENABLED Respond(h)
              \/ handler[h].pc = "done" /\ handler[h].status = 200

\* C5 witness: a handler found the channel full, discarded its signal and
\* has written the response.
C5_Witness ==
    \E h \in Handlers :
        /\ handler[h].handoff = "dropped"
        /\ handler[h].pc = "done"
        /\ handler[h].status = 200
        /\ Len(signalCh) = ChanCap

\* C6: every signal a handler discards because the channel is full adds one
\* to the dropped counter.
C6_DiscardCounted ==
    [][\A h \in Handlers :
          (handler[h].pc = "offer" /\ handler'[h].handoff = "dropped")
          => signalsDropped' = signalsDropped + 1]_vars

\* C7: for every hostname, whatever the interleaving of the calls of
\* getOrCreateCert, at most one leaf is generated, and every caller that has
\* returned a certificate holds that one leaf, the cached one.
C7_OneLeafPerHost ==
    /\ \A host \in Hosts : leafIssued[host] <= 1
    /\ \A c \in Callers :
          (caller[c].pc = "done" /\ ~caller[c].err)
          => /\ leafIssued[caller[c].host] = 1
             /\ caller[c].ret # NoCert
             /\ caller[c].ret.host = caller[c].host
             /\ caller[c].ret = certCache[caller[c].host]

\* C7 witness: two concurrent callers for the same hostname have both
\* returned, with the same leaf.
C7_Witness ==
    \E c, d \in Callers :
        /\ c # d
        /\ caller[c].pc = "done" /\ caller[d].pc = "done"
        /\ caller[c].host = caller[d].host
        /\ ~caller[c].err /\ ~caller[d].err
        /\ caller[c].ret = caller[d].ret
        /\ caller[c].ret # NoCert

\* C8: on the CONNECT path of HTTPSProxy a hostname's leaf is generated at
\* first use only: no hostname ever has a second leaf generated.
C8_ConnectLeafCached == \A host \in Hosts : connectLeaves[host] <= 1

\* C9: once the consumers of the channel have returned after a shutdown, or
\* the process has exited, no accepted signal is left in the signal channel.
C9_ChannelDrainedAtExit ==
    (\/ mainPc = "exited"
     \/ coordPc = "returned" /\ (startLaunched => senderPc = "returned"))
    => Len(signalCh) = 0

\* C10: when Start observes cancellation with a non-empty buffer it starts
\* one flush of exactly the buffered signals, the buffer is not changed while
\* that flush runs, its POSTs carry the buffer, and Start returns only with
\* the buffer flushed and emptied.
C10_FinalFlushBeforeReturn ==
    [][/\ (senderPc = "select" /\ ctxDone /\ flushCause' = "cancel"
             /\ flushes' = flushes + 1)
          => (senderPc' = "send" /\ batch' = batch /\ Len(batch) > 0)
       /\ (senderPc = "send" /\ senderPc' = "send") => batch' = batch
       /\ (senderPc = "send" /\ posts' = posts + 1)
          => (lastPost'.via = "start" /\ lastPost'.body = batch)
       /\ (senderPc = "select" /\ senderPc' = "returned") => batch = <<>>
       /\ (senderPc = "send" /\ senderPc' = "returned")
          => (flushCause = "cancel" /\ posts' = posts + 1)
       /\ senderPc' = "returned" => batch' = <<>>]_vars

\* C10 witness: Start has returned after a final flush, caused by the
\* cancellation, of a buffer that was neither empty nor full.
C10_Witness ==
    /\ senderPc = "returned"
    /\ flushCause = "cancel"
    /\ lastPost.via = "start"
    /\ Len(lastPost.body) > 0 /\ Len(lastPost.body) < BatchSize
    /\ batch = <<>>

IsPrefix(p, q) == Len(p) <= Len(q) /\ p = SubSeq(q, 1, Len(p))

LastN(q, n) == SubSeq(q, Len(q) - n + 1, Len(q))

\* C11: the exporter is FIFO.  The batches Start has POSTed, concatenated in
\* the order of their POSTs, are a prefix of the order in which Start
\* received the signals; the buffered batch is the rest of that order; every
\* POST body of Start is the most recent batch, in receive order; and the
\* receive order is the order of arrival in the channel.
C11_ExporterFIFO ==
    /\ IsPrefix(postLog, rcvLog)
    /\ (senderPc = "send" /\ posts > 0)
       => (rcvLog = postLog /\ Seqs(batch) = LastN(postLog, Len(batch)))
    /\ ~(senderPc = "send" /\ posts > 0) => rcvLog = postLog \o Seqs(batch)
    /\ lastPost.via = "start"
       => /\ Len(lastPost.body) <= Len(postLog)
          /\ Seqs(lastPost.body) = LastN(postLog, Len(lastPost.body))
    /\ \A i, j \in 1..Len(rcvLog) : i < j => rcvLog[i] < rcvLog[j]

\* C11 witness: Start has POSTed two batches, three signals or more in all,
\* and everything it received has been POSTed.
C11_Witness ==
    /\ flushes >= 2
    /\ Len(postLog) >= 3
    /\ postLog = rcvLog
    /\ senderPc = "select"

\* C12: while the ticker keeps firing and the loop is scheduled, every signal
\* Start has received, a buffer of fewer than BatchSize signals included, is
\* eventually in a batch that is POSTed; and a tick that finds the buffer
\* empty starts no flush, hence no POST.  (Both logs only grow, so "every
\* received signal is eventually POSTed" is: from some point on, as many
\* signals have been POSTed as were received.)
C12_TickFlushesBuffer ==
    /\ <>[](Len(postLog) >= Len(rcvLog))
    /\ [][(ExporterTick /\ batch = <<>>)
           => (/\ senderPc' = "select"
               /\ flushes' = flushes
               /\ posts' = posts
               /\ lastPost' = lastPost
               /\ postLog' = postLog)]_vars

\* C12 witness: a tick found a buffer that was neither empty nor full and
\* its flush has POSTed exactly that buffer.
C12_Witness ==
    /\ flushCause = "tick"
    /\ lastPost.via = "start"
    /\ Len(lastPost.body) > 0 /\ Len(lastPost.body) < BatchSize
    /\ postLog = rcvLog
    /\ senderPc = "select"

\* C13: when every POST of a batch fails retryably (503, also 429 or a
\* transport error), no counter and no buffer changes while the retries go
\* on, and the POST that exhausts the retries drops the batch: the buffer is
\* emptied, the dropped counter grows by exactly the batch size and the sent
\* counter is unchanged.
C13_ExhaustedCountedOnce ==
    [][/\ (senderPc = "send" /\ senderPc' = "send")
          => (/\ signalsDropped' = signalsDropped
              /\ signalsSent' = signalsSent
              /\ batch' = batch)
       /\ (senderPc = "send" /\ senderPc' # "send"
             /\ Retryable(lastPost'.status))
          => (/\ attempt = maxRetries
              /\ signalsDropped' = signalsDropped + Len(batch)
              /\ signalsSent' = signalsSent
              /\ batch' = <<>>)]_vars

\* C13 witness: the first batch of the run was answered 503 until the
\* retries were exhausted; it is counted as dropped once.
C13_Witness ==
    /\ lastPost.via = "start" /\ lastPost.status = 503
    /\ attempt = maxRetries /\ posts = maxRetries + 1
    /\ senderPc # "send" /\ batch = <<>>
    /\ flushes = 1
    /\ signalsSent = 0
    /\ signalsDropped = Len(lastPost.body)

\* C14: a POST of a batch answered 2xx is the last POST of that batch:
\* sendBatchWithRetry returns, the sent counter has grown by exactly the
\* number of signals in the batch, the dropped counter is unchanged and the
\* buffer of Start is empty.
C14_SuccessCountedOnce ==
    [][(posts' = posts + 1 /\ Success(lastPost'.status))
       => (/\ senderPc' # "send"
           /\ lastPost'.body = batch
           /\ signalsSent' = signalsSent + Len(batch)
           /\ signalsDropped' = signalsDropped
           /\ batch' = <<>>)]_vars

\* C14 witness: a full batch was answered 200 at its first POST and is
\* counted as sent.
C14_Witness ==
    /\ lastPost.via = "start" /\ lastPost.status = 200
    /\ Len(lastPost.body) = BatchSize
    /\ posts = 1 /\ flushes = 1
    /\ senderPc = "select" /\ batch = <<>>
    /\ signalsSent = BatchSize
    /\ signalsDropped = 0

\* C15: the wait before retry number k of a batch is baseDelay * 2^k, that
\* is 2s, 4s, 8s, 16s, 32s for k = 0..4, each the double of the one before.
C15_BackoffDoubles ==
    [][attempt' = attempt + 1
       => (/\ lastDelay' = baseDelay * (2 ^ attempt)
           /\ lastDelay' \in {2, 4, 8, 16, 32}
           /\ attempt = 0 => lastDelay' = 2
           /\ attempt > 0 => lastDelay' = 2 * lastDelay)]_vars

\* C15 witness: the fifth retry of a batch has been waited for, 32 seconds.
C15_Witness ==
    /\ senderPc = "send"
    /\ attempt = 5
    /\ lastDelay = 32

C17_HTTPErrorsAnswered ==
    [][\A h \in Handlers :
          (/\ handler[h].pc = "request"
           /\ handler[h].kind = "http"
           /\ handler'[h].outcome \in {"badbody", "upfail"})
          => (/\ handler'[h].pc = "done"
              /\ handler'[h].status
                    = (IF handler'[h].outcome = "badbody" THEN 400 ELSE 503)
              /\ handler'[h].upstream = (handler'[h].outcome = "upfail")
              /\ handler'[h].handoff = "none"
              /\ handler'[h].sig = NoSignal
              /\ signalCh' = signalCh
              /\ created' = created)]_vars

\* C17 witness: HTTPProxy has answered 503 to a request whose upstream call
\* failed.
C17_Witness ==
    \E h \in Handlers :
        /\ handler[h].kind = "http"
        /\ handler[h].pc = "done"
        /\ handler[h].outcome = "upfail"
        /\ handler[h].status = 503
        /\ handler[h].handoff = "none"

\* C18: on the CONNECT path the client gets a 400 response when the request
\* body cannot be read and a 503 response when the upstream call fails, and
\* no signal is offered.
C18_TLSErrorsAnswered ==
    \A h \in Handlers :
        (/\ handler[h].kind = "tls"
         /\ handler[h].pc = "done"
         /\ handler[h].outcome \in {"badbody", "upfail"})
        => (/\ handler[h].status
                  = (IF handler[h].outcome = "badbody" THEN 400 ELSE 503)
            /\ handler[h].handoff = "none")

\* The ports a client names in the target of a CONNECT.
PortTokens == {":443", ":8443", ":8888"}

IsNoPort(t) == t \notin PortTokens

\* The hostname of a target `host:port`.
HostnameOf(target) == SelectSeq(target, IsNoPort)

\* C19: on the CONNECT path, when the registry matches the hostname of the
\* CONNECT target and the path of the TLS request is registered for that
\* provider, the request is treated as an AI call, and the signal built for
\* it (when the upstream answers) has protocol "https" and that provider's
\* name in metadata.provider and goes to the handoff.
C19_ConnectDetected ==
    [][\A h \in Handlers :
          (/\ handler[h].pc = "request"
           /\ handler[h].kind = "tls"
           /\ DetectTLS(HostnameOf(handler[h].req.host), handler[h].req.path)
                 # NoProvider
           /\ handler'[h] # handler[h])
          => (/\ handler'[h].outcome # "notai"
              /\ handler'[h].outcome = "ok"
                 => (/\ handler'[h].pc = "offer"
                     /\ handler'[h].sig.protocol = "https"
                     /\ handler'[h].sig.metadata["provider"]
                           = DetectTLS(HostnameOf(handler[h].req.host),
                                       handler[h].req.path)))]_vars

\* C20: within one connection the response is written only after the
\* signal handoff, and the handoff comes only after the request is parsed
\* and the upstream has answered: no response is written before or during
\* the handoff, and a handler that has built a signal writes its response
\* only with the handoff behind it.
C20_OfferBeforeResponse ==
    \A h \in Handlers :
        /\ handler[h].pc = "request"
           => (/\ handler[h].status = 0 /\ handler[h].handoff = "none"
               /\ ~handler[h].upstream /\ handler[h].sig = NoSignal)
        /\ handler[h].pc = "offer"
           => (/\ handler[h].status = 0 /\ handler[h].handoff = "none"
               /\ handler[h].upstream /\ handler[h].outcome = "ok"
               /\ handler[h].sig # NoSignal)
        /\ handler[h].pc = "respond"
           => (handler[h].status = 0 /\ handler[h].handoff # "none")
        /\ handler[h].handoff # "none"
           => (handler[h].pc \in {"respond", "done"} /\ handler[h].outcome = "ok")
        /\ (handler[h].outcome = "ok" /\ handler[h].status # 0)
           => (handler[h].pc = "done" /\ handler[h].handoff # "none")

\* C20 witness: a connection of the CONNECT path has gone through all its
\* steps: signal handed to the channel, then response written.
C20_Witness ==
    \E h \in Handlers :
        /\ handler[h].kind = "tls"
        /\ handler[h].pc = "done"
        /\ handler[h].outcome = "ok"
        /\ handler[h].handoff = "sent"
        /\ handler[h].status = 200
\* C21: signal ids are unique within a run: no two signals built by any
\* handlers, of the same proxy or of different proxies, carry the same id.
C21_IdsUnique ==
    \A i, j \in 1..Len(issued) : i # j => issued[i].id # issued[j].id

C23_ProtocolPortPaired ==
    fnOp = "createSignal" =>
        IF fnIn.kind = "http"
        THEN fnOut.signal.protocol = "http" /\ fnOut.signal.destination.port = 80
        ELSE fnOut.signal.protocol = "https" /\ fnOut.signal.destination.port = 443

\* C24: Signal.Redact(fields) sets to "[REDACTED]" exactly the listed keys
\* that are present in metadata and in outcome_data, adds no key, leaves every
\* other key and every other field as it was, and is idempotent.
C24_RedactFrame ==
    fnOp = "Redact" =>
        /\ DOMAIN fnOut.redacted.metadata = DOMAIN fnIn.sig.metadata
        /\ DOMAIN fnOut.redacted.outcome_data = DOMAIN fnIn.sig.outcome_data
        /\ \A key \in DOMAIN fnOut.redacted.metadata :
              fnOut.redacted.metadata[key] = IF key \in fnIn.fields THEN REDACTED
                                    ELSE fnIn.sig.metadata[key]
        /\ \A key \in DOMAIN fnOut.redacted.outcome_data :
              fnOut.redacted.outcome_data[key] = IF key \in fnIn.fields THEN REDACTED
                                        ELSE fnIn.sig.outcome_data[key]
        /\ fnOut.redacted.seq = fnIn.sig.seq
        /\ fnOut.redacted.protocol = fnIn.sig.protocol
        /\ Redact(fnOut.redacted, fnIn.fields) = fnOut.redacted

\* C24 witness: a call that lists a key present in metadata, a key present in
\* outcome_data and a key present in neither, on a signal with other keys.
C24_Witness ==
    /\ fnOp = "Redact"
    /\ fnIn.fields = {"authorization", "api_key", "absent"}
    /\ DOMAIN fnIn.sig.metadata = {"authorization", "other"}
    /\ DOMAIN fnIn.sig.outcome_data = {"api_key", "result"}
    /\ fnOut.redacted.metadata["authorization"] = REDACTED
    /\ fnOut.redacted.metadata["other"] = "visible"
    /\ fnOut.redacted.outcome_data["api_key"] = REDACTED

\* C30: the operation label depends on the path alone and is the label of
\* the first of the ordered substring checks that hits, ai_request when none
\* does; a path containing /chat/completions is chat_completion.
C30_OperationByFirstMatch ==
    fnOp = "determineOperation" =>
        LET path == fnIn.path
            has(p) == Contains(path, p)
            chat == has(<<"/chat", "/completions">>) \/ has(<<"/messages">>)
            text == has(<<"/completions">>) \/ has(<<"/generate">>)
            embed == has(<<"/embed", "dings">>) \/ has(<<"/embed">>)
            image == has(<<"/images", "/generations">>)
            transcr == has(<<"/audio", "/transcriptions">>)
            transl == has(<<"/audio", "/translations">>)
            moder == has(<<"/moderations">>)
        IN  /\ chat => fnOut.operation = "chat_completion"
            /\ ~chat /\ text => fnOut.operation = "text_completion"
            /\ ~chat /\ ~text /\ embed => fnOut.operation = "embedding"
            /\ ~chat /\ ~text /\ ~embed /\ image => fnOut.operation = "image_generation"
            /\ ~chat /\ ~text /\ ~embed /\ ~image /\ transcr
                  => fnOut.operation = "audio_transcription"
            /\ ~chat /\ ~text /\ ~embed /\ ~image /\ ~transcr /\ transl
                  => fnOut.operation = "audio_translation"
            /\ ~chat /\ ~text /\ ~embed /\ ~image /\ ~transcr /\ ~transl
                  /\ moder => fnOut.operation = "moderation"
            /\ ~(chat \/ text \/ embed \/ image \/ transcr \/ transl \/ moder)
                  => fnOut.operation = "ai_request"

\* C30 witness: /v1/chat/completions, which also contains /completions.
C30_Witness ==
    /\ fnOp = "determineOperation"
    /\ fnIn.path = ChatPath
    /\ Contains(fnIn.path, <<"/completions">>)
    /\ fnOut.operation = "chat_completion"

\* C25: DetectTask on a signal whose prompt_preview satisfies the required
\* regex of the cold_calling rule returns a task of type cold_calling, with
\* the id <customer>_<agent>_cold_calling_<unix seconds> and the mean
\* confidence of the matched patterns (0.8 when only the required one does).
C25_ColdCallingDetected ==
    (/\ fnOp = "DetectTask"
     /\ "prompt_preview" \in DOMAIN fnIn.signal.metadata
     /\ MatchString(ColdCallRegex, fnIn.signal.metadata["prompt_preview"]).matched)
    => /\ fnOut.task.type = "cold_calling"
       /\ fnOut.task.id = generateTaskID(fnIn.signal.customer, fnIn.signal.agent,
                                    "cold_calling", fnIn.t)
       /\ fnOut.task.confidence =
             IF MatchString(ScriptRegex,
                            fnIn.signal.metadata["prompt_preview"]).matched
             THEN 70 ELSE 80

\* C26: a condition whose regular expression does not compile makes
\* matchesConditions report no match.
C26_InvalidRegexNoMatch ==
    (/\ fnOp = "matchesConditions"
     /\ \E key \in DOMAIN fnIn.conditions : MatchString(key, fnIn.text).err)
    => ~fnOut.matched

\* C27: for a task whose type has a rule and any list of signals, the
\* outcome_data of DetermineOutcome has the keys outcome_rule, confidence,
\* task_type, total_signals and duration_minutes.
C27_OutcomeDataKeys ==
    (/\ fnOp = "DetermineOutcome"
     /\ \E i \in 1..Len(taskRules) : taskRules[i].Name = fnIn.taskType)
    => {"outcome_rule", "confidence", "task_type", "total_signals",
        "duration_minutes"} \subseteq DOMAIN fnOut.outcome.data

\* C28: whenever the CA code has returned, with success or with an error,
\* the CA certificate file exists if and only if the CA key file exists.
C28_CAFilesPaired ==
    \A o \in CAOwners :
        caPc[o] = "returned" => (caFiles[o].cert <=> caFiles[o].key)

\* C29: when a proxy listener could not bind its port, the startup is not
\* reported as successful: AITrafficMonitor.Start returned an error and main
\* exits through logger.Fatalf.
C29_BindFailureFailsStartup ==
    (\E p \in Listeners : listener[p] = "failed") => bootPc # "started"


\* C31: HTTPProxy.detectAIProvider returns a provider only if the host
\* matches one of that provider's domain patterns (equal to a pattern without
\* wildcard, or ending with what follows the star of a wildcard pattern) and
\* the path matches one of that provider's API path patterns; a host that
\* matches no domain pattern of any provider yields no provider.
C31_ProviderOnlyForItsDomain ==
    fnOp = "detectAIProvider" =>
        /\ fnOut.provider # NoProvider =>
              \E i \in ProviderIndexes :
                  /\ knownAIProviders[i].Name = fnOut.provider
                  /\ DomainMatches(knownAIProviders[i], fnIn.host)
                  /\ PathContains(knownAIProviders[i], fnIn.path)
        /\ (\A i \in ProviderIndexes :
                ~DomainMatches(knownAIProviders[i], fnIn.host))
              => fnOut.provider = NoProvider


\* A text of the form KEYWORD ... : its first word is the keyword, in any case.
BeginsWith(sql, keyword) == Len(sql) >= 1 /\ ToUpper(sql[1]) = keyword

\* The table names a word can stand for: the word itself, or the word
\* without the ";" that ends the statement.
TableNames(w) == {w, Capture(w, {";"})}

C33_GenerationOutsideLock ==
    \A c \in Callers :
        caller[c].pc = "generate" =>
            /\ mu # c
            /\ \A d \in Callers :
                  (caller[d].pc = "lock" /\ caller[d].host # caller[c].host)
                      => LockFree(mu)


\* C34: a failed leaf generation does not poison the cache.  The step in
\* which generation fails inserts no entry and returns the error, without a
\* certificate, to the handshake; no step changes an entry that is cached;
\* and a call that finds no entry for its hostname, also after a failure for
\* that hostname, goes on to generate.  A CONNECT whose generateCert fails
\* leaves no leaf behind either.
C34_FailureDoesNotPoison ==
    [][/\ \A c \in Callers :
            (caller[c].pc = "generate" /\ caller'[c].pc = "unlock") =>
                /\ caller'[c].err
                /\ caller'[c].ret = NoCert
                /\ certCache' = certCache
       /\ \A host \in Hosts :
            certCache[host] # NoCert => certCache'[host] = certCache[host]
       /\ \A c \in Callers :
            (caller[c].pc = "lookup" /\ certCache[caller[c].host] = NoCert)
                => caller'[c].pc \in {"lookup", "generate"}
       /\ \A c \in Callers :
            (caller[c].pc = "unlock" /\ caller[c].err) =>
                (caller'[c].pc \in {"unlock", "done"} => caller'[c].ret = NoCert)
       /\ (connects' = connects + 1 /\ connectLeaves' = connectLeaves)
            => certCache' = certCache
      ]_vars

\* C34 witness: generation failed for a hostname in one handshake, which
\* ended with the error; nothing is cached for the hostname, and a later
\* handshake for it has reached generation again.
C34_Witness ==
    \E c \in Callers, d \in Callers :
        /\ c # d
        /\ caller[d].pc = "done" /\ caller[d].err /\ caller[d].ret = NoCert
        /\ caller[c].pc = "generate" /\ caller[c].host = caller[d].host
        /\ certCache[caller[d].host] = NoCert
        /\ \E host \in Hosts : certCache[host] # NoCert


\* C35: a dropped batch never stops the exporter.  The step that drops a
\* batch empties the buffer and puts Start back in its select (unless the
\* flush was the one of the cancellation case, after which Start returns
\* whatever the outcome); from there signals are received, buffered and
\* flushed as before the drop.
C35_DropDoesNotStopExporter ==
    [][signalsDropped' > signalsDropped =>
          /\ batch' = <<>>
          /\ flushCause # "cancel" => senderPc' = "select"
          /\ UNCHANGED <<signalCh, startLaunched, received, ctxDone>>
      ]_vars

\* C35 witness: the first batch was dropped, and the next batch, made of
\* signals received after the drop, was sent with a 2xx: the only signals
\* counted as sent are those of the last batch POSTed.
C35_Witness ==
    /\ signalsDropped > 0
    /\ signalsSent > 0
    /\ Len(postLog) > signalsSent
    /\ lastPost.via = "start"
    /\ Success(lastPost.status)
    /\ Len(lastPost.body) = signalsSent
    /\ Seqs(lastPost.body)
          = SubSeq(postLog, Len(postLog) - signalsSent + 1, Len(postLog))
    /\ senderPc = "select"


\* C36: whenever Start waits in its select, the signals counted as sent,
\* the signals counted as dropped and the signals in the buffer add up to
\* the signals received: every flushed signal is counted exactly once, as
\* sent or as dropped, whatever the answers to the POSTs.
C36_SignalsConserved ==
    (startLaunched /\ senderPc = "select")
        => signalsSent + signalsDropped + Len(batch) = received


NoDuplicates(q) == \A i, j \in 1..Len(q) : q[i] = q[j] => i = j

Elements(q) == {q[i] : i \in 1..Len(q)}

\* C37: whenever Start waits in its select the buffer holds fewer than
\* BatchSize signals; every batch POSTed holds between 1 and BatchSize
\* signals; after a flush, sent or dropped, the buffer is empty (what Start
\* buffers outside a flush was never POSTed, and Start returns with an empty
\* buffer); and no signal appears in two different batches.
C37_BatchBounds ==
    /\ senderPc = "select" => Len(batch) < BatchSize
    /\ senderPc = "send" => (Len(batch) >= 1 /\ Len(batch) <= BatchSize)
    /\ lastPost.via = "start"
       => (Len(lastPost.body) >= 1 /\ Len(lastPost.body) <= BatchSize)
    /\ senderPc = "returned" => batch = <<>>
    /\ ~(senderPc = "send" /\ posts > 0)
       => Elements(Seqs(batch)) \cap Elements(postLog) = {}
    /\ NoDuplicates(postLog)
    /\ NoDuplicates(Seqs(batch))

\* C37 witness: a full batch was flushed and dropped, a later batch of one
\* signal was flushed by the ticker and sent, and Start waits with an empty
\* buffer.
C37_Witness ==
    /\ senderPc = "select"
    /\ batch = <<>>
    /\ Len(postLog) = BatchSize + 1
    /\ signalsDropped >= BatchSize
    /\ signalsSent = 1
    /\ lastPost.via = "start"
    /\ Len(lastPost.body) = 1


\* C38: the exporter terminates on shutdown within a bound: once
\* cancellation has been requested Start receives at most one more signal
\* before it returns (and then makes the bounded retry sequence of one final
\* flush).  When the cancellation was requested before any signal was
\* received, Start has never received more than one signal.
C38_OneReceiptAfterCancel == ctxDone => received <= 1


C40_SendOnePostNoCounters ==
    [][/\ (coordPc = "sending" /\ coordPc' # "sending")
          => (/\ coordPc' = "select"
              /\ lastPost'.via = "send"
              /\ lastPost'.body = <<coordSig>>
              /\ lastPost'.err
                   <=> (lastPost'.status = 0 \/ lastPost'.status >= 300)
              /\ UNCHANGED <<signalsSent, signalsDropped, attempt, lastDelay,
                             posts, batch, senderPc>>)
       /\ (coordPc = "sending" /\ coordPc' = "sending")
          => (lastPost'.via = "send" => lastPost' = lastPost)
       /\ (coordPc # "sending" /\ lastPost'.via = "send")
          => (lastPost.via = "send" /\ lastPost' = lastPost)
      ]_vars

\* C40 witness: a Send was answered 300 and returned an error; the
\* coordinator is back in its select and no counter has moved.
C40_Witness ==
    /\ coordPc = "select"
    /\ lastPost.via = "send"
    /\ lastPost.status = 300
    /\ lastPost.err
    /\ Len(lastPost.body) = 1
    /\ signalsSent = 0
    /\ signalsDropped = 0

====
